---- MODULE Spec2Model ----
(***************************************************************************)
(* Model of the schema-driven DAO generator of src/src/utils/codegen.py:   *)
(* the SQL schema parser, the per-language type mapping, the code emitters *)
(* of the four languages, the orchestrator generate_dao_from_schema, and   *)
(* the behaviour of the in-memory mock DAO the Rust emitter generates.     *)
(*                                                                         *)
(* Text that the program inspects character by character (the schema, the  *)
(* table and column names, the type tokens) is a sequence of one-character *)
(* strings.  Generated text is a sequence of chunks (strings): the literal *)
(* pieces of the f-string templates and the interpolated values, in order; *)
(* the text itself is the concatenation of the chunks.                     *)
(***************************************************************************)
EXTENDS Integers, Sequences, FiniteSets, TLC

VARIABLES
    \* ---- generate_dao_from_schema (one call) ----
    pc,             \* position in generate_dao_from_schema / generate_rust_dao_from_schema
    language,       \* argument language
    service_name,   \* argument service_name
    schema_blocks,  \* the text of the schema file, as the blocks it is made of
    schema_exists,  \* whether schema_file can be opened
    schema_content, \* what f.read() returned (<<>> before the read)
    tables,         \* the list parse_sql_schema returned, iterated by the writes
    ti,             \* index of the table of the current loop iteration
    step,           \* index of the next artifact of the current table
    dirs,           \* directories that exist, relative to output_dir ("." is output_dir)
    files,          \* files under output_dir: path -> content
    reports,        \* the messages passed to success(), in order
    raised,         \* the exception that left the call, or "none"
    reads,          \* how many times the schema file has been read
    written,        \* the writes the current call has completed, in order
    files_before,   \* the files under output_dir when the current call began
    runs,           \* how many calls have been made
    \* ---- the generated mock DAO (Mock<T>DAO) ----
    entities,       \* the HashMap behind Arc<Mutex<..>>: key -> entity
    lastOp,         \* the last operation called, with its arguments
    prevOp,         \* the operation called before it
    lastRet,        \* what it returned
    prevEntities,   \* the map before that operation
    \* ---- clones of the mock used by several holders ----
    mutex,          \* who holds the Mutex around the map: a holder, or "free"
    holders,        \* per holder of a clone: where its call stands, and what it saw
    seq_entities,   \* the map the calls give when applied one after the other, in the
                    \* order in which they took effect
    \* ---- type resolution (DatabaseColumn.<lang>_type) ----
    column,         \* the column whose type is resolved
    backend,        \* the property read: rust, cpp, python or go
    resolved        \* the values the property returned, one per read

genVars  == <<pc, language, service_name, schema_blocks, schema_exists, schema_content, tables,
              ti, step, dirs, files, reports, raised, reads, written, files_before, runs>>
lockVars == <<mutex, holders, seq_entities>>
mockVars == <<entities, lastOp, prevOp, lastRet, prevEntities, lockVars>>
typeVars == <<column, backend, resolved>>
vars     == <<genVars, mockVars, typeVars>>

-----------------------------------------------------------------------------
(* Characters and Python's str methods                                     *)

LowerAlpha ==
    <<"a","b","c","d","e","f","g","h","i","j","k","l","m",
      "n","o","p","q","r","s","t","u","v","w","x","y","z">>

UpperAlpha ==
    <<"A","B","C","D","E","F","G","H","I","J","K","L","M",
      "N","O","P","Q","R","S","T","U","V","W","X","Y","Z">>

Digits == {"0","1","2","3","4","5","6","7","8","9"}

Range(s) == { s[i] : i \in DOMAIN s }

IsLower(c) == c \in Range(LowerAlpha)
IsUpper(c) == c \in Range(UpperAlpha)
IsAlpha(c) == IsLower(c) \/ IsUpper(c)

\* \s of the re module, on the characters a schema holds
IsSpace(c) == c \in {" ", "\n", "\t", "\r"}

\* \w of the re module
IsWord(c) == IsAlpha(c) \/ c \in Digits \/ c = "_"

CharUpper(c) ==
    IF IsLower(c) THEN UpperAlpha[CHOOSE i \in DOMAIN LowerAlpha : LowerAlpha[i] = c]
    ELSE c

CharLower(c) ==
    IF IsUpper(c) THEN LowerAlpha[CHOOSE i \in DOMAIN UpperAlpha : UpperAlpha[i] = c]
    ELSE c

\* str.upper() and str.lower()
StrUpper(s) == [i \in DOMAIN s |-> CharUpper(s[i])]
StrLower(s) == [i \in DOMAIN s |-> CharLower(s[i])]

\* s[a:b] with 1-based inclusive a and exclusive b
Slice(s, a, b) == IF b <= a THEN <<>> ELSE SubSeq(s, a, b - 1)

\* the text of a character sequence, as one string
RECURSIVE Str(_)
Str(s) == IF s = <<>> THEN "" ELSE Head(s) \o Str(Tail(s))

\* str.startswith(prefix)
StartsWith(s, prefix) ==
    /\ Len(prefix) <= Len(s)
    /\ \A i \in DOMAIN prefix : s[i] = prefix[i]

\* `sub in s`
Contains(s, sub) ==
    \E i \in 0..(Len(s) - Len(sub)) : \A k \in DOMAIN sub : s[i + k] = sub[k]

\* first position >= i of s whose character is not in class P (Len(s)+1 if none)
RECURSIVE SkipSpace(_, _)
SkipSpace(s, i) == IF i <= Len(s) /\ IsSpace(s[i]) THEN SkipSpace(s, i + 1) ELSE i

RECURSIVE SkipWord(_, _)
SkipWord(s, i) == IF i <= Len(s) /\ IsWord(s[i]) THEN SkipWord(s, i + 1) ELSE i

RECURSIVE SkipNonSpace(_, _)
SkipNonSpace(s, i) == IF i <= Len(s) /\ ~IsSpace(s[i]) THEN SkipNonSpace(s, i + 1) ELSE i

\* str.strip()
RECURSIVE RStripEnd(_, _)
RStripEnd(s, j) == IF j >= 1 /\ IsSpace(s[j]) THEN RStripEnd(s, j - 1) ELSE j

StrStrip(s) == Slice(s, SkipSpace(s, 1), RStripEnd(s, Len(s)) + 1)

\* str.split(sep) for a one-character sep: the pieces between the separators,
\* empty pieces included
RECURSIVE SplitOn(_, _, _, _)
SplitOn(s, sep, i, start) ==
    LET seps == { j \in i..Len(s) : s[j] = sep }
    IN IF seps = {} THEN << Slice(s, start, Len(s) + 1) >>
       ELSE LET j == CHOOSE j \in seps : \A k \in seps : j <= k
            IN << Slice(s, start, j) >> \o SplitOn(s, sep, j + 1, j + 1)

StrSplit(s, sep) == SplitOn(s, sep, 1, 1)

\* str.split() without argument: the maximal runs of non-whitespace
RECURSIVE SplitWs(_, _)
SplitWs(s, i) ==
    LET a == SkipSpace(s, i)
        b == SkipNonSpace(s, a)
    IN IF a > Len(s) THEN <<>> ELSE << Slice(s, a, b) >> \o SplitWs(s, b)

\* str.replace(old, new) for a one-character old; new is a character sequence
RECURSIVE StrReplace(_, _, _)
StrReplace(s, old, new) ==
    IF s = <<>> THEN <<>>
    ELSE (IF Head(s) = old THEN new ELSE << Head(s) >>) \o StrReplace(Tail(s), old, new)

\* str.capitalize(): first character upper-cased, the rest lower-cased
Capitalize(w) ==
    [i \in DOMAIN w |-> IF i = 1 THEN CharUpper(w[i]) ELSE CharLower(w[i])]

\* str.title(): a letter is upper-cased after a non-letter, lower-cased after a letter
StrTitle(s) ==
    [i \in DOMAIN s |->
        IF i = 1 \/ ~IsAlpha(s[i - 1]) THEN CharUpper(s[i]) ELSE CharLower(s[i])]

RECURSIVE Flatten(_)
Flatten(ss) == IF ss = <<>> THEN <<>> ELSE Head(ss) \o Flatten(Tail(ss))

-----------------------------------------------------------------------------
(* DatabaseColumn, DatabaseTable                                           *)

\* Optional[str] = None
None == "None"

DatabaseColumn(name, col_type, nullable, primary_key) ==
    [name |-> name, column_type |-> col_type, nullable |-> nullable,
     primary_key |-> primary_key, foreign_key |-> None]

DatabaseTable(name, columns) == [name |-> name, columns |-> columns]

\* The keys of the type_mapping dictionaries, in the order they are written
TypeKeys == <<"TEXT", "VARCHAR", "INTEGER", "BIGINT", "BOOLEAN", "TIMESTAMP", "UUID", "JSONB">>

RustTypeMapping ==
    <<"String", "String", "i32", "i64", "bool", "DateTime<Utc>", "Uuid", "serde_json::Value">>

CppTypeMapping ==
    <<"std::string", "std::string", "int", "int64_t", "bool",
      "std::chrono::system_clock::time_point", "std::string", "nlohmann::json">>

PythonTypeMapping ==
    <<"str", "str", "int", "int", "bool", "datetime", "UUID", "dict">>

GoTypeMapping ==
    <<"string", "string", "int", "int64", "bool", "time.Time", "uuid.UUID",
      "map[string]interface{}">>

\* Mutant: type_mapping[key] instead of type_mapping.get(key, default)
MappingGetKeyError(mapping, key, default) ==
    IF \E i \in DOMAIN TypeKeys : TypeKeys[i] = key
    THEN mapping[CHOOSE i \in DOMAIN TypeKeys : TypeKeys[i] = key]
    ELSE "KeyError"

\* dict.get(key, default) on a dictionary given by its values, keyed by TypeKeys
MappingGet(mapping, key, default) ==
    IF \E i \in DOMAIN TypeKeys : TypeKeys[i] = key
    THEN mapping[CHOOSE i \in DOMAIN TypeKeys : TypeKeys[i] = key]
    ELSE default

\* Mutant: `if self.nullable:` without `and not self.primary_key`
rust_type_wraps_primary_key(col) ==
    LET t == MappingGet(RustTypeMapping, Str(StrUpper(col.column_type)), "String")
    IN IF col.nullable THEN <<"Option<", t, ">">> ELSE <<t>>

\* A resolved type is a chunk sequence: the wrapper's opening, the native type,
\* the wrapper's closing.
rust_type(col) ==
    LET t == MappingGet(RustTypeMapping, Str(StrUpper(col.column_type)), "String")
    IN IF col.nullable /\ ~col.primary_key THEN <<"Option<", t, ">">> ELSE <<t>>

cpp_type(col) ==
    LET t == MappingGet(CppTypeMapping, Str(StrUpper(col.column_type)), "std::string")
    IN IF col.nullable /\ ~col.primary_key THEN <<"std::optional<", t, ">">> ELSE <<t>>

python_type(col) ==
    LET t == MappingGet(PythonTypeMapping, Str(StrUpper(col.column_type)), "str")
    IN IF col.nullable /\ ~col.primary_key THEN <<"Optional[", t, "]">> ELSE <<t>>

go_type(col) ==
    LET t == MappingGet(GoTypeMapping, Str(StrUpper(col.column_type)), "string")
    IN IF col.nullable /\ ~col.primary_key THEN <<"*", t>> ELSE <<t>>

\* Mutant: self.name.capitalize(), without the split on underscores
struct_name_unsplit(table) == Str(Capitalize(table.name))

\* DatabaseTable.struct_name
struct_name(table) ==
    LET words == StrSplit(table.name, "_")
    IN Str(Flatten([i \in DOMAIN words |-> Capitalize(words[i])]))

\* struct_name.lower()
struct_name_lower(table) ==
    LET words == StrSplit(table.name, "_")
    IN Str(StrLower(Flatten([i \in DOMAIN words |-> Capitalize(words[i])])))

\* DatabaseTable.primary_key: the first column marked primary key, or None
primary_key(table) ==
    IF \E i \in DOMAIN table.columns : table.columns[i].primary_key
    THEN table.columns[CHOOSE i \in DOMAIN table.columns :
            /\ table.columns[i].primary_key
            /\ \A j \in 1..(i - 1) : ~table.columns[j].primary_key]
    ELSE None

-----------------------------------------------------------------------------
(* RustDAOGenerator.parse_sql_schema                                       *)

CreateTableKw == <<"C","R","E","A","T","E"," ","T","A","B","L","E">>
ConstraintKw  == <<"C","O","N","S","T","R","A","I","N","T">>
PrimaryKeyKw  == <<"P","R","I","M","A","R","Y"," ","K","E","Y">>
ForeignKeyKw  == <<"F","O","R","E","I","G","N"," ","K","E","Y">>
NotNullKw     == <<"N","O","T"," ","N","U","L","L">>

\* first position j >= i with s[j] = ")" and s[j+1] = ";" (0 if none): where the
\* lazy (.*?) of table_pattern stops
FindClose(s, i) ==
    LET closes == { j \in i..(Len(s) - 1) : s[j] = ")" /\ s[j + 1] = ";" }
    IN IF closes = {} THEN 0 ELSE CHOOSE j \in closes : \A k \in closes : j <= k

\* table_pattern = r'CREATE TABLE\s+(\w+)\s*\((.*?)\);' with DOTALL | IGNORECASE,
\* tried at position i: [ok, name (group 1), columns_str (group 2), end]
MatchTableAt(s, i) ==
    LET n  == Len(CreateTableKw)
        kw == /\ i + n - 1 <= Len(s)
              /\ \A k \in 1..n : CharUpper(s[i + k - 1]) = CreateTableKw[k]
        p1 == i + n
        p2 == SkipSpace(s, p1)
        p3 == SkipWord(s, p2)
        p4 == SkipSpace(s, p3)
        j  == FindClose(s, p4 + 1)
        ok == /\ kw
              /\ p2 > p1
              /\ p3 > p2
              /\ p4 <= Len(s)
              /\ s[p4] = "("
              /\ j # 0
    IN IF ok
       THEN [ok |-> TRUE, name |-> Slice(s, p2, p3), columns_str |-> Slice(s, p4 + 1, j),
             end |-> j + 2]
       ELSE [ok |-> FALSE, name |-> <<>>, columns_str |-> <<>>, end |-> i + 1]

\* RustDAOGenerator._parse_columns
parse_line(line) ==
    LET parts == SplitWs(StrReplace(line, ",", <<>>), 1)
    IN IF \/ StartsWith(line, ConstraintKw)
          \/ StartsWith(line, PrimaryKeyKw)
          \/ StartsWith(line, ForeignKeyKw)
       THEN <<>>
       ELSE IF Len(parts) >= 2
       THEN << DatabaseColumn(parts[1], parts[2],
                              ~Contains(StrUpper(line), NotNullKw),
                              Contains(StrUpper(line), PrimaryKeyKw)) >>
       ELSE <<>>

column_lines(columns_str) ==
    LET raw == StrSplit(columns_str, "\n")
    IN SelectSeq([i \in DOMAIN raw |-> StrStrip(raw[i])], LAMBDA l : l # <<>>)

parse_columns(columns_str) ==
    LET lines == column_lines(columns_str)
    IN Flatten([i \in DOMAIN lines |-> parse_line(lines[i])])

\* re.finditer over the schema from position i: the matches do not overlap, and the
\* scan resumes where a match ended
RECURSIVE FindTables(_, _)
FindTables(s, i) ==
    LET starts == { j \in i..Len(s) : MatchTableAt(s, j).ok }
    IN IF starts = {} THEN <<>>
       ELSE LET m == MatchTableAt(s, CHOOSE j \in starts : \A k \in starts : j <= k)
            IN << DatabaseTable(m.name, parse_columns(m.columns_str)) >>
                 \o FindTables(s, m.end)

parse_sql_schema(schema) == FindTables(schema, 1)

-----------------------------------------------------------------------------
(* Generated text                                                          *)

NL == "\n"

\* The backquote of the Go templates (a TLA+ string cannot hold the character)
BackQuote == "<backquote>"

\* Chunks made of whitespace only: the blank pieces of the templates
BlankChunks == {"", NL, "\t", "  ", "    ", "        "}

\* str.strip() of a generated text whose first and last non-blank chunks neither
\* start nor end with whitespace: the blank chunks at both ends are dropped
RECURSIVE LStripChunks(_)
LStripChunks(t) ==
    IF t # <<>> /\ Head(t) \in BlankChunks THEN LStripChunks(Tail(t)) ELSE t

RECURSIVE RStripChunks(_)
RStripChunks(t) ==
    IF t # <<>> /\ t[Len(t)] \in BlankChunks THEN RStripChunks(SubSeq(t, 1, Len(t) - 1)) ELSE t

Strip(t) == RStripChunks(LStripChunks(t))

\* chr(10).join(items), each item a chunk sequence
RECURSIVE JoinNL(_)
JoinNL(items) ==
    IF items = <<>> THEN <<>>
    ELSE IF Len(items) = 1 THEN Head(items)
    ELSE Head(items) \o <<NL>> \o JoinNL(Tail(items))

\* [f(col) for col in table.columns if not col.primary_key]
NonKeyColumns(table) == SelectSeq(table.columns, LAMBDA c : ~c.primary_key)

HasPrimaryKey(table) == \E i \in DOMAIN table.columns : table.columns[i].primary_key

\* pk.name if pk else 'id'
\* Mutant: without primary key the key column is named after the table
pk_name_of_table(table) ==
    << IF HasPrimaryKey(table) THEN Str(primary_key(table).name)
       ELSE Str(table.name) \o "_id" >>

pk_name(table) ==
    << IF HasPrimaryKey(table) THEN Str(primary_key(table).name) ELSE "id" >>

\* f"{struct_name}DAO"
trait_name(table) == <<struct_name(table), "DAO">>

\* col.name.replace('_', ' ').title()
doc_title(col) == Str(StrTitle(StrReplace(col.name, "_", <<" ">>)))

\* ''.join(word.capitalize() for word in col.name.split('_'))
go_field_name(col) ==
    LET words == StrSplit(col.name, "_")
    IN Str(Flatten([i \in DOMAIN words |-> Capitalize(words[i])]))

\* service_name.lower().replace('-', '')
package_name(service) == Str(StrReplace(StrLower(service), "-", <<>>))

\* ---- RustDAOGenerator ----

Rust_pk_type(table) ==
    IF HasPrimaryKey(table) THEN rust_type(primary_key(table)) ELSE <<"Uuid">>

Rust_impl_name(table) == <<"Pg", struct_name(table), "DAO">>

Rust_mock_name(table) == <<"Mock", struct_name(table), "DAO">>

Rust_model_imports ==
    << <<"use chrono::{DateTime, Utc};">>,
       <<"use serde::{Deserialize, Serialize};">>,
       <<"use utoipa::ToSchema;">>,
       <<"use uuid::Uuid;">> >>

Rust_model_fields(table) ==
    [i \in DOMAIN table.columns |->
        LET col == table.columns[i]
        IN <<"    /// ", doc_title(col), NL, "    pub ", Str(col.name), ": ">>
              \o rust_type(col) \o <<",">>]

Rust_dao_methods(table) ==
    << <<"    /// Find ", Str(table.name), " by ID">>,
       <<"    async fn find_by_id(&self, id: ">> \o Rust_pk_type(table)
           \o <<") -> Result<Option<", struct_name(table), ">, DatabaseError>;">>,
       <<"">>,
       <<"    /// Find all ", Str(table.name)>>,
       <<"    async fn find_all(&self) -> Result<Vec<", struct_name(table),
         ">, DatabaseError>;">>,
       <<"">>,
       <<"    /// Create a new ", Str(table.name)>>,
       <<"    async fn create(&self, entity: &", struct_name(table), ") -> Result<">>
           \o Rust_pk_type(table) \o <<", DatabaseError>;">>,
       <<"">>,
       <<"    /// Update ", Str(table.name)>>,
       <<"    async fn update(&self, id: ">> \o Rust_pk_type(table)
           \o <<", entity: &", struct_name(table), ") -> Result<(), DatabaseError>;">>,
       <<"">>,
       <<"    /// Delete ", Str(table.name)>>,
       <<"    async fn delete(&self, id: ">> \o Rust_pk_type(table)
           \o <<") -> Result<(), DatabaseError>;">> >>

Rust_generate_field_mapping(table, indent) ==
    JoinNL([i \in DOMAIN table.columns |->
        LET col == table.columns[i]
        IN IF Head(rust_type(col)) = "Option<"
           THEN <<indent, Str(col.name), ": row.try_get(\"", Str(col.name), "\").ok(),">>
           ELSE <<indent, Str(col.name), ": row.get(\"", Str(col.name), "\"),">>])

\* ---- CppDAOGenerator ----

Cpp_pk_type(table) ==
    IF HasPrimaryKey(table) THEN cpp_type(primary_key(table)) ELSE <<"std::string">>

Cpp_impl_name(table) == <<"Pg", struct_name(table), "DAO">>

Cpp_model_includes ==
    << <<"#pragma once">>,
       <<"#include <string>">>,
       <<"#include <optional>">>,
       <<"#include <chrono>">>,
       <<"#include <nlohmann/json.hpp>">> >>

Cpp_model_fields(table) ==
    [i \in DOMAIN table.columns |->
        LET col == table.columns[i]
        IN <<"    ">> \o cpp_type(col) \o <<" ", Str(col.name), ";">>]

\* ---- PythonDAOGenerator ----

Python_pk_type(table) ==
    IF HasPrimaryKey(table) THEN python_type(primary_key(table)) ELSE <<"UUID">>

Python_model_imports ==
    << <<"from datetime import datetime">>,
       <<"from typing import Optional">>,
       <<"from uuid import UUID">>,
       <<"from pydantic import BaseModel, Field">> >>

Python_model_fields(table) ==
    [i \in DOMAIN table.columns |->
        LET col == table.columns[i]
            default == IF col.nullable THEN "None" ELSE "..."
        IN IF col.primary_key
           THEN <<"    ", Str(col.name), ": ">> \o python_type(col)
                  \o <<" = Field(..., description='", doc_title(col), "')">>
           ELSE <<"    ", Str(col.name), ": ">> \o python_type(col)
                  \o <<" = Field(", default, ", description='", doc_title(col), "')">>]

Python_create_fields(table) ==
    LET cols == NonKeyColumns(table)
    IN [i \in DOMAIN cols |-> <<"    ", Str(cols[i].name), ": ">> \o python_type(cols[i])]

Python_update_fields(table) ==
    LET cols == NonKeyColumns(table)
    IN [i \in DOMAIN cols |->
          <<"    ", Str(cols[i].name), ": Optional[">> \o python_type(cols[i])
             \o <<"] = None">>]

\* ---- GoDAOGenerator ----

Go_pk_type(table) ==
    IF HasPrimaryKey(table) THEN go_type(primary_key(table)) ELSE <<"uuid.UUID">>

Go_impl_name(table) == <<"pg", struct_name(table), "DAO">>

\* col.go_type.lstrip("*")
go_type_lstrip(col) == IF Head(go_type(col)) = "*" THEN Tail(go_type(col)) ELSE go_type(col)

\* 'time.Time' in col.go_type, 'uuid.UUID' in col.go_type
go_type_has(col, native) == \E i \in DOMAIN go_type(col) : go_type(col)[i] = native

Go_model_fields(table) ==
    [i \in DOMAIN table.columns |->
        LET col == table.columns[i]
        IN <<"\t", go_field_name(col), " ">> \o go_type(col)
             \o <<" ", BackQuote, "json:\"", Str(col.name), "\" db:\"", Str(col.name), "\"",
                  BackQuote>>]

Go_create_fields(table) ==
    LET cols == NonKeyColumns(table)
    IN [i \in DOMAIN cols |->
          <<"\t", go_field_name(cols[i]), " ">> \o go_type(cols[i])
             \o <<" ", BackQuote, "json:\"", Str(cols[i].name), "\"", BackQuote>>]

Go_update_fields(table) ==
    LET cols == NonKeyColumns(table)
    IN [i \in DOMAIN cols |->
          <<"\t", go_field_name(cols[i]), " *">> \o go_type_lstrip(cols[i])
             \o <<" ", BackQuote, "json:\"", Str(cols[i].name), ",omitempty\"", BackQuote>>]

Go_imports(table) ==
    (IF \E i \in DOMAIN table.columns : go_type_has(table.columns[i], "time.Time")
     THEN << <<"\t\"time\"">> >> ELSE <<>>)
    \o
    (IF \E i \in DOMAIN table.columns : go_type_has(table.columns[i], "uuid.UUID")
     THEN << <<"\t\"github.com/google/uuid\"">> >> ELSE <<>>)

Go_import_block(table) ==
    IF Go_imports(table) # <<>>
    THEN <<"import (", NL>> \o JoinNL(Go_imports(table)) \o <<NL, ")", NL, NL>>
    ELSE <<>>

Rust_generate_model(table) ==
    Strip(
    <<NL>>
    \o JoinNL(Rust_model_imports) \o <<NL>>
    \o <<NL>>
    \o <<"/// Represents a ">> \o <<Str(table.name)>> \o <<" in the system", NL>>
    \o <<"#[derive(Debug, Clone, Serialize, Deserialize, ToSchema)]", NL>>
    \o <<"pub struct ">> \o <<struct_name(table)>> \o <<" {", NL>>
    \o JoinNL(Rust_model_fields(table)) \o <<NL>>
    \o <<"}", NL>>)

Rust_generate_dao_trait(table) ==
    Strip(
    <<NL>>
    \o <<"use crate::model::error::DatabaseError;", NL>>
    \o <<"use crate::model::">> \o <<struct_name_lower(table)>> \o <<"::model::">> \o <<struct_name(table)>> \o <<";", NL>>
    \o <<"use async_trait::async_trait;", NL>>
    \o <<"use uuid::Uuid;", NL>>
    \o <<"use std::sync::Arc;", NL>>
    \o <<NL>>
    \o <<"#[async_trait]", NL>>
    \o <<"pub trait ">> \o trait_name(table) \o <<": Send + Sync {", NL>>
    \o JoinNL(Rust_dao_methods(table)) \o <<NL>>
    \o <<"}", NL>>)

Rust_generate_pg_dao_impl(table) ==
    Strip(
    <<NL>>
    \o <<"use super::dao::">> \o trait_name(table) \o <<";", NL>>
    \o <<"use crate::model::error::DatabaseError;", NL>>
    \o <<"use crate::model::">> \o <<struct_name_lower(table)>> \o <<"::model::">> \o <<struct_name(table)>> \o <<";", NL>>
    \o <<"use async_trait::async_trait;", NL>>
    \o <<"use sqlx::{PgPool, Row};", NL>>
    \o <<"use std::sync::Arc;", NL>>
    \o <<"use uuid::Uuid;", NL>>
    \o <<NL>>
    \o <<"pub struct ">> \o Rust_impl_name(table) \o <<" {", NL>>
    \o <<"    pool: Arc<PgPool>,", NL>>
    \o <<"}", NL>>
    \o <<NL>>
    \o <<"impl ">> \o Rust_impl_name(table) \o <<" {", NL>>
    \o <<"    pub fn new(pool: Arc<PgPool>) -> Self {", NL>>
    \o <<"        Self { pool }", NL>>
    \o <<"    }", NL>>
    \o <<"}", NL>>
    \o <<NL>>
    \o <<"#[async_trait]", NL>>
    \o <<"impl ">> \o trait_name(table) \o <<" for ">> \o Rust_impl_name(table) \o <<" {", NL>>
    \o <<"    async fn find_by_id(&self, id: ">> \o Rust_pk_type(table) \o <<") -> Result<Option<">> \o <<struct_name(table)>> \o <<">, DatabaseError> {", NL>>
    \o <<"        let query = \"SELECT * FROM ">> \o <<Str(table.name)>> \o <<" WHERE ">> \o pk_name(table) \o <<" = $1\";", NL>>
    \o <<"        ", NL>>
    \o <<"        match sqlx::query(query)", NL>>
    \o <<"            .bind(id)", NL>>
    \o <<"            .fetch_optional(self.pool.as_ref())", NL>>
    \o <<"            .await", NL>>
    \o <<"        {", NL>>
    \o <<"            Ok(Some(row)) => {", NL>>
    \o <<"                let entity = ">> \o <<struct_name(table)>> \o <<" {", NL>>
    \o Rust_generate_field_mapping(table, "                    ") \o <<NL>>
    \o <<"                };", NL>>
    \o <<"                Ok(Some(entity))", NL>>
    \o <<"            },", NL>>
    \o <<"            Ok(None) => Ok(None),", NL>>
    \o <<"            Err(e) => Err(DatabaseError::QueryError(e.to_string())),", NL>>
    \o <<"        }", NL>>
    \o <<"    }", NL>>
    \o <<"    ", NL>>
    \o <<"    async fn find_all(&self) -> Result<Vec<">> \o <<struct_name(table)>> \o <<">, DatabaseError> {", NL>>
    \o <<"        let query = \"SELECT * FROM ">> \o <<Str(table.name)>> \o <<"\";", NL>>
    \o <<"        ", NL>>
    \o <<"        match sqlx::query(query)", NL>>
    \o <<"            .fetch_all(self.pool.as_ref())", NL>>
    \o <<"            .await", NL>>
    \o <<"        {", NL>>
    \o <<"            Ok(rows) => {", NL>>
    \o <<"                let entities: Vec<">> \o <<struct_name(table)>> \o <<"> = rows", NL>>
    \o <<"                    .into_iter()", NL>>
    \o <<"                    .map(|row| ">> \o <<struct_name(table)>> \o <<" {", NL>>
    \o Rust_generate_field_mapping(table, "                        ") \o <<NL>>
    \o <<"                    })", NL>>
    \o <<"                    .collect();", NL>>
    \o <<"                Ok(entities)", NL>>
    \o <<"            },", NL>>
    \o <<"            Err(e) => Err(DatabaseError::QueryError(e.to_string())),", NL>>
    \o <<"        }", NL>>
    \o <<"    }", NL>>
    \o <<"    ", NL>>
    \o <<"    async fn create(&self, entity: &">> \o <<struct_name(table)>> \o <<") -> Result<">> \o Rust_pk_type(table) \o <<", DatabaseError> {", NL>>
    \o <<"        // Implementation would go here", NL>>
    \o <<"        todo!(\"Implement create method\")", NL>>
    \o <<"    }", NL>>
    \o <<"    ", NL>>
    \o <<"    async fn update(&self, id: ">> \o Rust_pk_type(table) \o <<", entity: &">> \o <<struct_name(table)>> \o <<") -> Result<(), DatabaseError> {", NL>>
    \o <<"        // Implementation would go here", NL>>
    \o <<"        todo!(\"Implement update method\")", NL>>
    \o <<"    }", NL>>
    \o <<"    ", NL>>
    \o <<"    async fn delete(&self, id: ">> \o Rust_pk_type(table) \o <<") -> Result<(), DatabaseError> {", NL>>
    \o <<"        let query = \"DELETE FROM ">> \o <<Str(table.name)>> \o <<" WHERE ">> \o pk_name(table) \o <<" = $1\";", NL>>
    \o <<"        ", NL>>
    \o <<"        match sqlx::query(query)", NL>>
    \o <<"            .bind(id)", NL>>
    \o <<"            .execute(self.pool.as_ref())", NL>>
    \o <<"            .await", NL>>
    \o <<"        {", NL>>
    \o <<"            Ok(_) => Ok(()),", NL>>
    \o <<"            Err(e) => Err(DatabaseError::QueryError(e.to_string())),", NL>>
    \o <<"        }", NL>>
    \o <<"    }", NL>>
    \o <<"}", NL>>)

Rust_generate_mock_dao(table) ==
    Strip(
    <<NL>>
    \o <<"use super::dao::">> \o trait_name(table) \o <<";", NL>>
    \o <<"use crate::model::error::DatabaseError;", NL>>
    \o <<"use crate::model::">> \o <<struct_name_lower(table)>> \o <<"::model::">> \o <<struct_name(table)>> \o <<";", NL>>
    \o <<"use async_trait::async_trait;", NL>>
    \o <<"use std::collections::HashMap;", NL>>
    \o <<"use std::sync::{Arc, Mutex};", NL>>
    \o <<"use uuid::Uuid;", NL>>
    \o <<NL>>
    \o <<"#[derive(Debug, Clone, Default)]", NL>>
    \o <<"pub struct ">> \o Rust_mock_name(table) \o <<" {", NL>>
    \o <<"    entities: Arc<Mutex<HashMap<">> \o Rust_pk_type(table) \o <<", ">> \o <<struct_name(table)>> \o <<">>>,", NL>>
    \o <<"}", NL>>
    \o <<NL>>
    \o <<"impl ">> \o Rust_mock_name(table) \o <<" {", NL>>
    \o <<"    pub fn new() -> Self {", NL>>
    \o <<"        Self::default()", NL>>
    \o <<"    }", NL>>
    \o <<"    ", NL>>
    \o <<"    pub fn with_data(entities: Vec<">> \o <<struct_name(table)>> \o <<">) -> Self {", NL>>
    \o <<"        let mut map = HashMap::new();", NL>>
    \o <<"        for entity in entities {", NL>>
    \o <<"            map.insert(entity.">> \o pk_name(table) \o <<", entity);", NL>>
    \o <<"        }", NL>>
    \o <<"        ", NL>>
    \o <<"        Self {", NL>>
    \o <<"            entities: Arc::new(Mutex::new(map)),", NL>>
    \o <<"        }", NL>>
    \o <<"    }", NL>>
    \o <<"}", NL>>
    \o <<NL>>
    \o <<"#[async_trait]", NL>>
    \o <<"impl ">> \o trait_name(table) \o <<" for ">> \o Rust_mock_name(table) \o <<" {", NL>>
    \o <<"    async fn find_by_id(&self, id: ">> \o Rust_pk_type(table) \o <<") -> Result<Option<">> \o <<struct_name(table)>> \o <<">, DatabaseError> {", NL>>
    \o <<"        let entities = self.entities.lock().unwrap();", NL>>
    \o <<"        Ok(entities.get(&id).cloned())", NL>>
    \o <<"    }", NL>>
    \o <<"    ", NL>>
    \o <<"    async fn find_all(&self) -> Result<Vec<">> \o <<struct_name(table)>> \o <<">, DatabaseError> {", NL>>
    \o <<"        let entities = self.entities.lock().unwrap();", NL>>
    \o <<"        Ok(entities.values().cloned().collect())", NL>>
    \o <<"    }", NL>>
    \o <<"    ", NL>>
    \o <<"    async fn create(&self, entity: &">> \o <<struct_name(table)>> \o <<") -> Result<">> \o Rust_pk_type(table) \o <<", DatabaseError> {", NL>>
    \o <<"        let mut entities = self.entities.lock().unwrap();", NL>>
    \o <<"        let id = entity.">> \o pk_name(table) \o <<";", NL>>
    \o <<"        entities.insert(id, entity.clone());", NL>>
    \o <<"        Ok(id)", NL>>
    \o <<"    }", NL>>
    \o <<"    ", NL>>
    \o <<"    async fn update(&self, id: ">> \o Rust_pk_type(table) \o <<", entity: &">> \o <<struct_name(table)>> \o <<") -> Result<(), DatabaseError> {", NL>>
    \o <<"        let mut entities = self.entities.lock().unwrap();", NL>>
    \o <<"        entities.insert(id, entity.clone());", NL>>
    \o <<"        Ok(())", NL>>
    \o <<"    }", NL>>
    \o <<"    ", NL>>
    \o <<"    async fn delete(&self, id: ">> \o Rust_pk_type(table) \o <<") -> Result<(), DatabaseError> {", NL>>
    \o <<"        let mut entities = self.entities.lock().unwrap();", NL>>
    \o <<"        entities.remove(&id);", NL>>
    \o <<"        Ok(())", NL>>
    \o <<"    }", NL>>
    \o <<"}", NL>>)

Rust_mod_rs ==
    <<"pub mod dao;", NL>>
    \o <<"pub mod model;", NL>>
    \o <<"pub mod pg_dao;", NL>>
    \o <<"pub mod mock_dao;", NL>>
    \o <<"pub mod error;", NL>>
    \o <<"pub mod response;", NL>>
    \o <<NL>>
    \o <<"pub use dao::*;", NL>>
    \o <<"pub use model::*;", NL>>
    \o <<"pub use pg_dao::*;", NL>>
    \o <<"pub use mock_dao::*;", NL>>

Cpp_generate_model(table) ==
    Strip(
    <<NL>>
    \o JoinNL(Cpp_model_includes) \o <<NL>>
    \o <<NL>>
    \o <<"namespace models {", NL>>
    \o <<NL>>
    \o <<"/// Represents a ">> \o <<Str(table.name)>> \o <<" in the system", NL>>
    \o <<"struct ">> \o <<struct_name(table)>> \o <<" {", NL>>
    \o JoinNL(Cpp_model_fields(table)) \o <<NL>>
    \o <<"    ", NL>>
    \o <<"    // Convert to JSON", NL>>
    \o <<"    nlohmann::json to_json() const;", NL>>
    \o <<"    ", NL>>
    \o <<"    // Create from JSON", NL>>
    \o <<"    static ">> \o <<struct_name(table)>> \o <<" from_json(const nlohmann::json& j);", NL>>
    \o <<"    ", NL>>
    \o <<"    // Equality operator", NL>>
    \o <<"    bool operator==(const ">> \o <<struct_name(table)>> \o <<"& other) const;", NL>>
    \o <<"};", NL>>
    \o <<NL>>
    \o <<"// JSON serialization functions", NL>>
    \o <<"void to_json(nlohmann::json& j, const ">> \o <<struct_name(table)>> \o <<"& obj);", NL>>
    \o <<"void from_json(const nlohmann::json& j, ">> \o <<struct_name(table)>> \o <<"& obj);", NL>>
    \o <<NL>>
    \o <<"} // namespace models", NL>>)

Cpp_generate_dao_interface(table) ==
    Strip(
    <<NL>>
    \o <<"#pragma once", NL>>
    \o <<"#include \"models/">> \o <<Str(table.name)>> \o <<".hpp\"", NL>>
    \o <<"#include <vector>", NL>>
    \o <<"#include <optional>", NL>>
    \o <<"#include <memory>", NL>>
    \o <<"#include <future>", NL>>
    \o <<NL>>
    \o <<"namespace dao {", NL>>
    \o <<NL>>
    \o <<"class ">> \o trait_name(table) \o <<" {", NL>>
    \o <<"public:", NL>>
    \o <<"    virtual ~">> \o trait_name(table) \o <<"() = default;", NL>>
    \o <<"    ", NL>>
    \o <<"    /// Find ">> \o <<Str(table.name)>> \o <<" by ID", NL>>
    \o <<"    virtual std::future<std::optional<models::">> \o <<struct_name(table)>> \o <<">> find_by_id(const ">> \o Cpp_pk_type(table) \o <<"& id) = 0;", NL>>
    \o <<"    ", NL>>
    \o <<"    /// Find all ">> \o <<Str(table.name)>> \o <<NL>>
    \o <<"    virtual std::future<std::vector<models::">> \o <<struct_name(table)>> \o <<">> find_all() = 0;", NL>>
    \o <<"    ", NL>>
    \o <<"    /// Create a new ">> \o <<Str(table.name)>> \o <<NL>>
    \o <<"    virtual std::future<">> \o Cpp_pk_type(table) \o <<"> create(const models::">> \o <<struct_name(table)>> \o <<"& entity) = 0;", NL>>
    \o <<"    ", NL>>
    \o <<"    /// Update ">> \o <<Str(table.name)>> \o <<NL>>
    \o <<"    virtual std::future<bool> update(const ">> \o Cpp_pk_type(table) \o <<"& id, const models::">> \o <<struct_name(table)>> \o <<"& entity) = 0;", NL>>
    \o <<"    ", NL>>
    \o <<"    /// Delete ">> \o <<Str(table.name)>> \o <<NL>>
    \o <<"    virtual std::future<bool> delete_entity(const ">> \o Cpp_pk_type(table) \o <<"& id) = 0;", NL>>
    \o <<"};", NL>>
    \o <<NL>>
    \o <<"} // namespace dao", NL>>)

Cpp_generate_pg_dao_impl(table) ==
    Strip(
    <<NL>>
    \o <<"#pragma once", NL>>
    \o <<"#include \"dao/">> \o <<Str(table.name)>> \o <<"_dao.hpp\"", NL>>
    \o <<"#include <pqxx/pqxx>", NL>>
    \o <<"#include <memory>", NL>>
    \o <<NL>>
    \o <<"namespace dao {", NL>>
    \o <<NL>>
    \o <<"class ">> \o Cpp_impl_name(table) \o <<" : public ">> \o trait_name(table) \o <<" {", NL>>
    \o <<"private:", NL>>
    \o <<"    std::shared_ptr<pqxx::connection> connection_;", NL>>
    \o <<"    ", NL>>
    \o <<"public:", NL>>
    \o <<"    explicit ">> \o Cpp_impl_name(table) \o <<"(std::shared_ptr<pqxx::connection> conn);", NL>>
    \o <<"    ", NL>>
    \o <<"    std::future<std::optional<models::">> \o <<struct_name(table)>> \o <<">> find_by_id(const ">> \o Cpp_pk_type(table) \o <<"& id) override;", NL>>
    \o <<"    std::future<std::vector<models::">> \o <<struct_name(table)>> \o <<">> find_all() override;", NL>>
    \o <<"    std::future<">> \o Cpp_pk_type(table) \o <<"> create(const models::">> \o <<struct_name(table)>> \o <<"& entity) override;", NL>>
    \o <<"    std::future<bool> update(const ">> \o Cpp_pk_type(table) \o <<"& id, const models::">> \o <<struct_name(table)>> \o <<"& entity) override;", NL>>
    \o <<"    std::future<bool> delete_entity(const ">> \o Cpp_pk_type(table) \o <<"& id) override;", NL>>
    \o <<"    ", NL>>
    \o <<"private:", NL>>
    \o <<"    models::">> \o <<struct_name(table)>> \o <<" row_to_entity(const pqxx::row& row);", NL>>
    \o <<"};", NL>>
    \o <<NL>>
    \o <<"} // namespace dao", NL>>)

Python_generate_model(table) ==
    Strip(
    <<NL>>
    \o JoinNL(Python_model_imports) \o <<NL>>
    \o <<NL>>
    \o <<NL>>
    \o <<"class ">> \o <<struct_name(table)>> \o <<"(BaseModel):", NL>>
    \o <<"    \"\"\"Represents a ">> \o <<Str(table.name)>> \o <<" in the system.\"\"\"", NL>>
    \o <<"    ", NL>>
    \o JoinNL(Python_model_fields(table)) \o <<NL>>
    \o <<"    ", NL>>
    \o <<"    class Config:", NL>>
    \o <<"        from_attributes = True", NL>>
    \o <<"        json_encoders = {", NL>>
    \o <<"            datetime: lambda v: v.isoformat(),", NL>>
    \o <<"            UUID: lambda v: str(v),", NL>>
    \o <<"        }", NL>>
    \o <<NL>>
    \o <<NL>>
    \o <<"class ">> \o <<struct_name(table)>> \o <<"Create(BaseModel):", NL>>
    \o <<"    \"\"\"Schema for creating a ">> \o <<Str(table.name)>> \o <<".\"\"\"", NL>>
    \o <<"    ", NL>>
    \o JoinNL(Python_create_fields(table)) \o <<NL>>
    \o <<NL>>
    \o <<NL>>
    \o <<"class ">> \o <<struct_name(table)>> \o <<"Update(BaseModel):", NL>>
    \o <<"    \"\"\"Schema for updating a ">> \o <<Str(table.name)>> \o <<".\"\"\"", NL>>
    \o <<"    ", NL>>
    \o JoinNL(Python_update_fields(table)) \o <<NL>>)

Python_generate_dao_interface(table) ==
    Strip(
    <<NL>>
    \o <<"from abc import ABC, abstractmethod", NL>>
    \o <<"from typing import List, Optional", NL>>
    \o <<"from uuid import UUID", NL>>
    \o <<"from .models import ">> \o <<struct_name(table)>> \o <<", ">> \o <<struct_name(table)>> \o <<"Create, ">> \o <<struct_name(table)>> \o <<"Update", NL>>
    \o <<NL>>
    \o <<NL>>
    \o <<"class ">> \o <<struct_name(table)>> \o <<"DAO(ABC):", NL>>
    \o <<"    \"\"\"Abstract DAO for ">> \o <<Str(table.name)>> \o <<" operations.\"\"\"", NL>>
    \o <<"    ", NL>>
    \o <<"    @abstractmethod", NL>>
    \o <<"    async def find_by_id(self, entity_id: ">> \o Python_pk_type(table) \o <<") -> Optional[">> \o <<struct_name(table)>> \o <<"]:", NL>>
    \o <<"        \"\"\"Find ">> \o <<Str(table.name)>> \o <<" by ID.\"\"\"", NL>>
    \o <<"        pass", NL>>
    \o <<"    ", NL>>
    \o <<"    @abstractmethod", NL>>
    \o <<"    async def find_all(self) -> List[">> \o <<struct_name(table)>> \o <<"]:", NL>>
    \o <<"        \"\"\"Find all ">> \o <<Str(table.name)>> \o <<".\"\"\"", NL>>
    \o <<"        pass", NL>>
    \o <<"    ", NL>>
    \o <<"    @abstractmethod", NL>>
    \o <<"    async def create(self, entity: ">> \o <<struct_name(table)>> \o <<"Create) -> ">> \o <<struct_name(table)>> \o <<":", NL>>
    \o <<"        \"\"\"Create a new ">> \o <<Str(table.name)>> \o <<".\"\"\"", NL>>
    \o <<"        pass", NL>>
    \o <<"    ", NL>>
    \o <<"    @abstractmethod", NL>>
    \o <<"    async def update(self, entity_id: ">> \o Python_pk_type(table) \o <<", entity: ">> \o <<struct_name(table)>> \o <<"Update) -> Optional[">> \o <<struct_name(table)>> \o <<"]:", NL>>
    \o <<"        \"\"\"Update ">> \o <<Str(table.name)>> \o <<".\"\"\"", NL>>
    \o <<"        pass", NL>>
    \o <<"    ", NL>>
    \o <<"    @abstractmethod", NL>>
    \o <<"    async def delete(self, entity_id: ">> \o Python_pk_type(table) \o <<") -> bool:", NL>>
    \o <<"        \"\"\"Delete ">> \o <<Str(table.name)>> \o <<".\"\"\"", NL>>
    \o <<"        pass", NL>>)

Python_generate_sqlalchemy_dao(table) ==
    Strip(
    <<NL>>
    \o <<"from typing import List, Optional", NL>>
    \o <<"from uuid import UUID", NL>>
    \o <<"from sqlalchemy.ext.asyncio import AsyncSession", NL>>
    \o <<"from sqlalchemy import select, update, delete", NL>>
    \o <<"from .dao import ">> \o <<struct_name(table)>> \o <<"DAO", NL>>
    \o <<"from .models import ">> \o <<struct_name(table)>> \o <<", ">> \o <<struct_name(table)>> \o <<"Create, ">> \o <<struct_name(table)>> \o <<"Update", NL>>
    \o <<"from ..database import ">> \o <<struct_name(table)>> \o <<"Model  # SQLAlchemy model", NL>>
    \o <<NL>>
    \o <<NL>>
    \o <<"class SQLAlchemy">> \o <<struct_name(table)>> \o <<"DAO(">> \o <<struct_name(table)>> \o <<"DAO):", NL>>
    \o <<"    \"\"\"SQLAlchemy implementation of ">> \o <<struct_name(table)>> \o <<"DAO.\"\"\"", NL>>
    \o <<"    ", NL>>
    \o <<"    def __init__(self, session: AsyncSession):", NL>>
    \o <<"        self.session = session", NL>>
    \o <<"    ", NL>>
    \o <<"    async def find_by_id(self, entity_id: ">> \o Python_pk_type(table) \o <<") -> Optional[">> \o <<struct_name(table)>> \o <<"]:", NL>>
    \o <<"        \"\"\"Find ">> \o <<Str(table.name)>> \o <<" by ID.\"\"\"", NL>>
    \o <<"        stmt = select(">> \o <<struct_name(table)>> \o <<"Model).where(">> \o <<struct_name(table)>> \o <<"Model.">> \o pk_name(table) \o <<" == entity_id)", NL>>
    \o <<"        result = await self.session.execute(stmt)", NL>>
    \o <<"        model = result.scalar_one_or_none()", NL>>
    \o <<"        ", NL>>
    \o <<"        if model:", NL>>
    \o <<"            return ">> \o <<struct_name(table)>> \o <<".from_orm(model)", NL>>
    \o <<"        return None", NL>>
    \o <<"    ", NL>>
    \o <<"    async def find_all(self) -> List[">> \o <<struct_name(table)>> \o <<"]:", NL>>
    \o <<"        \"\"\"Find all ">> \o <<Str(table.name)>> \o <<".\"\"\"", NL>>
    \o <<"        stmt = select(">> \o <<struct_name(table)>> \o <<"Model)", NL>>
    \o <<"        result = await self.session.execute(stmt)", NL>>
    \o <<"        models = result.scalars().all()", NL>>
    \o <<"        ", NL>>
    \o <<"        return [">> \o <<struct_name(table)>> \o <<".from_orm(model) for model in models]", NL>>
    \o <<"    ", NL>>
    \o <<"    async def create(self, entity: ">> \o <<struct_name(table)>> \o <<"Create) -> ">> \o <<struct_name(table)>> \o <<":", NL>>
    \o <<"        \"\"\"Create a new ">> \o <<Str(table.name)>> \o <<".\"\"\"", NL>>
    \o <<"        model = ">> \o <<struct_name(table)>> \o <<"Model(**entity.dict())", NL>>
    \o <<"        self.session.add(model)", NL>>
    \o <<"        await self.session.commit()", NL>>
    \o <<"        await self.session.refresh(model)", NL>>
    \o <<"        ", NL>>
    \o <<"        return ">> \o <<struct_name(table)>> \o <<".from_orm(model)", NL>>
    \o <<"    ", NL>>
    \o <<"    async def update(self, entity_id: ">> \o Python_pk_type(table) \o <<", entity: ">> \o <<struct_name(table)>> \o <<"Update) -> Optional[">> \o <<struct_name(table)>> \o <<"]:", NL>>
    \o <<"        \"\"\"Update ">> \o <<Str(table.name)>> \o <<".\"\"\"", NL>>
    \o <<"        update_data = entity.dict(exclude_unset=True)", NL>>
    \o <<"        if not update_data:", NL>>
    \o <<"            return await self.find_by_id(entity_id)", NL>>
    \o <<"        ", NL>>
    \o <<"        stmt = (", NL>>
    \o <<"            update(">> \o <<struct_name(table)>> \o <<"Model)", NL>>
    \o <<"            .where(">> \o <<struct_name(table)>> \o <<"Model.">> \o pk_name(table) \o <<" == entity_id)", NL>>
    \o <<"            .values(**update_data)", NL>>
    \o <<"        )", NL>>
    \o <<"        await self.session.execute(stmt)", NL>>
    \o <<"        await self.session.commit()", NL>>
    \o <<"        ", NL>>
    \o <<"        return await self.find_by_id(entity_id)", NL>>
    \o <<"    ", NL>>
    \o <<"    async def delete(self, entity_id: ">> \o Python_pk_type(table) \o <<") -> bool:", NL>>
    \o <<"        \"\"\"Delete ">> \o <<Str(table.name)>> \o <<".\"\"\"", NL>>
    \o <<"        stmt = delete(">> \o <<struct_name(table)>> \o <<"Model).where(">> \o <<struct_name(table)>> \o <<"Model.">> \o pk_name(table) \o <<" == entity_id)", NL>>
    \o <<"        result = await self.session.execute(stmt)", NL>>
    \o <<"        await self.session.commit()", NL>>
    \o <<"        ", NL>>
    \o <<"        return result.rowcount > 0", NL>>)

Python_init_py(table) ==
    <<"from .models import ">> \o <<struct_name(table)>> \o <<", ">> \o <<struct_name(table)>> \o <<"Create, ">> \o <<struct_name(table)>> \o <<"Update", NL>>
    \o <<"from .dao import ">> \o <<struct_name(table)>> \o <<"DAO", NL>>
    \o <<"from .sqlalchemy_dao import SQLAlchemy">> \o <<struct_name(table)>> \o <<"DAO", NL>>
    \o <<NL>>
    \o <<"__all__ = [", NL>>
    \o <<"    \"">> \o <<struct_name(table)>> \o <<"\",", NL>>
    \o <<"    \"">> \o <<struct_name(table)>> \o <<"Create\", ", NL>>
    \o <<"    \"">> \o <<struct_name(table)>> \o <<"Update\",", NL>>
    \o <<"    \"">> \o <<struct_name(table)>> \o <<"DAO\",", NL>>
    \o <<"    \"SQLAlchemy">> \o <<struct_name(table)>> \o <<"DAO\",", NL>>
    \o <<"]", NL>>

Go_generate_model(table, service) ==
    Strip(
    <<NL>>
    \o <<"package ">> \o <<package_name(service)>> \o <<NL>>
    \o <<NL>>
    \o Go_import_block(table) \o <<"// ">> \o <<struct_name(table)>> \o <<" represents a ">> \o <<Str(table.name)>> \o <<" in the system", NL>>
    \o <<"type ">> \o <<struct_name(table)>> \o <<" struct {", NL>>
    \o JoinNL(Go_model_fields(table)) \o <<NL>>
    \o <<"}", NL>>
    \o <<NL>>
    \o <<"// ">> \o <<struct_name(table)>> \o <<"Create represents the data needed to create a ">> \o <<Str(table.name)>> \o <<NL>>
    \o <<"type ">> \o <<struct_name(table)>> \o <<"Create struct {", NL>>
    \o <<"  ">> \o JoinNL(Go_create_fields(table)) \o <<NL>>
    \o <<"}", NL>>
    \o <<NL>>
    \o <<"// ">> \o <<struct_name(table)>> \o <<"Update represents the data that can be updated for a ">> \o <<Str(table.name)>> \o <<NL>>
    \o <<"type ">> \o <<struct_name(table)>> \o <<"Update struct {", NL>>
    \o <<"  ">> \o JoinNL(Go_update_fields(table)) \o <<NL>>
    \o <<"}", NL>>)

Go_generate_dao_interface(table, service) ==
    Strip(
    <<NL>>
    \o <<"package ">> \o <<package_name(service)>> \o <<NL>>
    \o <<NL>>
    \o <<"import (", NL>>
    \o <<"\t\"context\"", NL>>
    \o <<"\t\"github.com/google/uuid\"", NL>>
    \o <<")", NL>>
    \o <<NL>>
    \o <<"// ">> \o <<struct_name(table)>> \o <<"DAO defines the interface for ">> \o <<Str(table.name)>> \o <<" data access operations", NL>>
    \o <<"type ">> \o <<struct_name(table)>> \o <<"DAO interface {", NL>>
    \o <<"\t// FindByID retrieves a ">> \o <<Str(table.name)>> \o <<" by its ID", NL>>
    \o <<"\tFindByID(ctx context.Context, id ">> \o Go_pk_type(table) \o <<") (*">> \o <<struct_name(table)>> \o <<", error)", NL>>
    \o <<"\t", NL>>
    \o <<"\t// FindAll retrieves all ">> \o <<Str(table.name)>> \o <<NL>>
    \o <<"\tFindAll(ctx context.Context) ([]*">> \o <<struct_name(table)>> \o <<", error)", NL>>
    \o <<"\t", NL>>
    \o <<"\t// Create creates a new ">> \o <<Str(table.name)>> \o <<NL>>
    \o <<"\tCreate(ctx context.Context, entity *">> \o <<struct_name(table)>> \o <<"Create) (*">> \o <<struct_name(table)>> \o <<", error)", NL>>
    \o <<"\t", NL>>
    \o <<"\t// Update updates an existing ">> \o <<Str(table.name)>> \o <<NL>>
    \o <<"\tUpdate(ctx context.Context, id ">> \o Go_pk_type(table) \o <<", entity *">> \o <<struct_name(table)>> \o <<"Update) (*">> \o <<struct_name(table)>> \o <<", error)", NL>>
    \o <<"\t", NL>>
    \o <<"\t// Delete deletes a ">> \o <<Str(table.name)>> \o <<" by its ID", NL>>
    \o <<"\tDelete(ctx context.Context, id ">> \o Go_pk_type(table) \o <<") error", NL>>
    \o <<"}", NL>>)

Go_generate_pg_dao_impl(table, service) ==
    Strip(
    <<NL>>
    \o <<"package ">> \o <<package_name(service)>> \o <<NL>>
    \o <<NL>>
    \o <<"import (", NL>>
    \o <<"\t\"context\"", NL>>
    \o <<"\t\"database/sql\"", NL>>
    \o <<"\t\"fmt\"", NL>>
    \o <<"\t", NL>>
    \o <<"\t\"github.com/google/uuid\"", NL>>
    \o <<"\t\"github.com/jmoiron/sqlx\"", NL>>
    \o <<")", NL>>
    \o <<NL>>
    \o <<"// ">> \o Go_impl_name(table) \o <<" implements ">> \o <<struct_name(table)>> \o <<"DAO using PostgreSQL", NL>>
    \o <<"type ">> \o Go_impl_name(table) \o <<" struct {", NL>>
    \o <<"\tdb *sqlx.DB", NL>>
    \o <<"}", NL>>
    \o <<NL>>
    \o <<"// New">> \o <<struct_name(table)>> \o <<"DAO creates a new PostgreSQL ">> \o <<struct_name(table)>> \o <<"DAO", NL>>
    \o <<"func New">> \o <<struct_name(table)>> \o <<"DAO(db *sqlx.DB) ">> \o <<struct_name(table)>> \o <<"DAO {", NL>>
    \o <<"\treturn &">> \o Go_impl_name(table) \o <<"{", NL>>
    \o <<"\t\tdb: db,", NL>>
    \o <<"\t}", NL>>
    \o <<"}", NL>>
    \o <<NL>>
    \o <<"// FindByID retrieves a ">> \o <<Str(table.name)>> \o <<" by its ID", NL>>
    \o <<"func (d *">> \o Go_impl_name(table) \o <<") FindByID(ctx context.Context, id ">> \o Go_pk_type(table) \o <<") (*">> \o <<struct_name(table)>> \o <<", error) {", NL>>
    \o <<"\tquery := ", BackQuote, "SELECT * FROM ">> \o <<Str(table.name)>> \o <<" WHERE ">> \o pk_name(table) \o <<" = $1", BackQuote, NL>>
    \o <<"\t", NL>>
    \o <<"\tvar entity ">> \o <<struct_name(table)>> \o <<NL>>
    \o <<"\terr := d.db.GetContext(ctx, &entity, query, id)", NL>>
    \o <<"\tif err != nil {", NL>>
    \o <<"\t\tif err == sql.ErrNoRows {", NL>>
    \o <<"\t\t\treturn nil, nil", NL>>
    \o <<"\t\t}", NL>>
    \o <<"\t\treturn nil, fmt.Errorf(\"failed to find ">> \o <<Str(table.name)>> \o <<" by ID: %w\", err)", NL>>
    \o <<"\t}", NL>>
    \o <<"\t", NL>>
    \o <<"\treturn &entity, nil", NL>>
    \o <<"}", NL>>
    \o <<NL>>
    \o <<"// FindAll retrieves all ">> \o <<Str(table.name)>> \o <<NL>>
    \o <<"func (d *">> \o Go_impl_name(table) \o <<") FindAll(ctx context.Context) ([]*">> \o <<struct_name(table)>> \o <<", error) {", NL>>
    \o <<"\tquery := ", BackQuote, "SELECT * FROM ">> \o <<Str(table.name)>> \o <<BackQuote, NL>>
    \o <<"\t", NL>>
    \o <<"\tvar entities []">> \o <<struct_name(table)>> \o <<NL>>
    \o <<"\terr := d.db.SelectContext(ctx, &entities, query)", NL>>
    \o <<"\tif err != nil {", NL>>
    \o <<"\t\treturn nil, fmt.Errorf(\"failed to find all ">> \o <<Str(table.name)>> \o <<": %w\", err)", NL>>
    \o <<"\t}", NL>>
    \o <<"\t", NL>>
    \o <<"\t// Convert to pointer slice", NL>>
    \o <<"\tresult := make([]*">> \o <<struct_name(table)>> \o <<", len(entities))", NL>>
    \o <<"\tfor i := range entities {", NL>>
    \o <<"\t\tresult[i] = &entities[i]", NL>>
    \o <<"\t}", NL>>
    \o <<"\t", NL>>
    \o <<"\treturn result, nil", NL>>
    \o <<"}", NL>>
    \o <<NL>>
    \o <<"// Create creates a new ">> \o <<Str(table.name)>> \o <<NL>>
    \o <<"func (d *">> \o Go_impl_name(table) \o <<") Create(ctx context.Context, entity *">> \o <<struct_name(table)>> \o <<"Create) (*">> \o <<struct_name(table)>> \o <<", error) {", NL>>
    \o <<"\t// Implementation would depend on specific fields and requirements", NL>>
    \o <<"\t// This is a basic template", NL>>
    \o <<"\treturn nil, fmt.Errorf(\"create method not implemented\")", NL>>
    \o <<"}", NL>>
    \o <<NL>>
    \o <<"// Update updates an existing ">> \o <<Str(table.name)>> \o <<NL>>
    \o <<"func (d *">> \o Go_impl_name(table) \o <<") Update(ctx context.Context, id ">> \o Go_pk_type(table) \o <<", entity *">> \o <<struct_name(table)>> \o <<"Update) (*">> \o <<struct_name(table)>> \o <<", error) {", NL>>
    \o <<"\t// Implementation would depend on specific fields and requirements", NL>>
    \o <<"\t// This is a basic template", NL>>
    \o <<"\treturn nil, fmt.Errorf(\"update method not implemented\")", NL>>
    \o <<"}", NL>>
    \o <<NL>>
    \o <<"// Delete deletes a ">> \o <<Str(table.name)>> \o <<" by its ID", NL>>
    \o <<"func (d *">> \o Go_impl_name(table) \o <<") Delete(ctx context.Context, id ">> \o Go_pk_type(table) \o <<") error {", NL>>
    \o <<"\tquery := ", BackQuote, "DELETE FROM ">> \o <<Str(table.name)>> \o <<" WHERE ">> \o pk_name(table) \o <<" = $1", BackQuote, NL>>
    \o <<"\t", NL>>
    \o <<"\t_, err := d.db.ExecContext(ctx, query, id)", NL>>
    \o <<"\tif err != nil {", NL>>
    \o <<"\t\treturn fmt.Errorf(\"failed to delete ">> \o <<Str(table.name)>> \o <<": %w\", err)", NL>>
    \o <<"\t}", NL>>
    \o <<"\t", NL>>
    \o <<"\treturn nil", NL>>
    \o <<"}", NL>>)

-----------------------------------------------------------------------------
(* Schema files and type tokens                                            *)

\* the one-line schema of the end-to-end scenarios
BlockUsersOneLine ==
    <<"C","R","E","A","T","E"," ","T","A","B","L","E"," ","u","s","e","r","s"," ","(","i","d",
      " ","U","U","I","D"," ","P","R","I","M","A","R","Y"," ","K","E","Y",","," ","e","m","a",
      "i","l"," ","V","A","R","C","H","A","R"," ","N","O","T"," ","N","U","L","L",","," ","b",
      "i","o"," ","T","E","X","T",")",";">>

\* the same table, one column per line
BlockUsersLines ==
    <<"C","R","E","A","T","E"," ","T","A","B","L","E"," ","u","s","e","r","s"," ","(","\n"," ",
      " "," "," ","i","d"," ","U","U","I","D"," ","P","R","I","M","A","R","Y"," ","K","E","Y",
      ",","\n"," "," "," "," ","e","m","a","i","l"," ","V","A","R","C","H","A","R"," ","N","O",
      "T"," ","N","U","L","L",",","\n"," "," "," "," ","b","i","o"," ","T","E","X","T","\n",")",
      ";">>

\* lower-case keywords, a nullable timestamp
BlockX ==
    <<"c","r","e","a","t","e"," ","t","a","b","l","e"," ","x"," ","(","\n"," "," ","i","d"," ",
      "I","N","T","E","G","E","R"," ","P","R","I","M","A","R","Y"," ","K","E","Y",",","\n"," ",
      " ","m","a","d","e","_","a","t"," ","t","i","m","e","s","t","a","m","p","\n",")",";">>

\* a table without primary key, whose name is pg_ followed by the name of table x
BlockPgX ==
    <<"C","R","E","A","T","E"," ","T","A","B","L","E"," ","p","g","_","x"," ","(","\n"," "," ",
      "n"," ","B","I","G","I","N","T"," ","N","O","T"," ","N","U","L","L",",","\n"," "," ","d",
      "o","c"," ","J","S","O","N","B","\n",")",";">>

\* a table-level PRIMARY KEY clause, an underscore in the table name
BlockUserProfiles ==
    <<"C","R","E","A","T","E"," ","T","A","B","L","E"," ","u","s","e","r","_","p","r","o","f",
      "i","l","e","s"," ","(","\n"," "," ","u","s","e","r","_","i","d"," ","U","U","I","D"," ",
      "N","O","T"," ","N","U","L","L",",","\n"," "," ","P","R","I","M","A","R","Y"," ","K","E",
      "Y"," ","(","u","s","e","r","_","i","d",")",",","\n"," "," ","o","k"," ","B","O","O","L",
      "E","A","N","\n",")",";">>

\* a table whose name is a single word
BlockOrders ==
    <<"C","R","E","A","T","E"," ","T","A","B","L","E"," ","o","r","d","e","r","s"," ","(","\n",
      " "," ","i","d"," ","S","E","R","I","A","L"," ","P","R","I","M","A","R","Y"," ","K","E",
      "Y",",","\n"," "," ","t","o","t","a","l"," ","I","N","T","E","G","E","R"," ","N","O","T",
      " ","N","U","L","L","\n",")",";">>

\* two column lines that both carry the PRIMARY KEY marker
BlockOrderItems ==
    <<"C","R","E","A","T","E"," ","T","A","B","L","E"," ","o","r","d","e","r","_","i","t","e",
      "m","s"," ","(","\n"," "," ","o","r","d","e","r","_","i","d"," ","I","N","T","E","G","E",
      "R"," ","P","R","I","M","A","R","Y"," ","K","E","Y",",","\n"," "," ","i","t","e","m","_",
      "i","d"," ","I","N","T","E","G","E","R"," ","P","R","I","M","A","R","Y"," ","K","E","Y",
      "\n",")",";">>

\* a block cut off after its first column line: no closing parenthesis, no semicolon
BlockTruncated ==
    <<"C","R","E","A","T","E"," ","T","A","B","L","E"," ","l","o","g","s"," ","(","\n"," "," ",
      "i","d"," ","I","N","T","E","G","E","R"," ","N","O","T"," ","N","U","L","L",",">>

\* text that holds no CREATE TABLE block
BlockNoise ==
    <<"-","-"," ","s","c","h","e","m","a"," ","v","1","\n","D","R","O","P"," ","T","A","B","L",
      "E"," ","o","l","d",";">>

\* a blank between the closing parenthesis and the semicolon
BlockTags ==
    <<"C","R","E","A","T","E"," ","T","A","B","L","E"," ","t","a","g","s"," ","(","\n"," "," ",
      "i","d"," ","U","U","I","D"," ","P","R","I","M","A","R","Y"," ","K","E","Y","\n",")"," ",
      ";">>

\* lower-case markers, a column with a REFERENCES clause, a CONSTRAINT line and a
\* lower-case FOREIGN KEY line
BlockMemberships ==
    <<"C","R","E","A","T","E"," ","T","A","B","L","E"," ","m","e","m","b","e","r","s","h","i",
      "p","s"," ","(","\n"," "," ","i","d"," ","u","u","i","d"," ","p","r","i","m","a","r","y",
      " ","k","e","y",",","\n"," "," ","t","e","a","m","_","i","d"," ","U","U","I","D"," ","n",
      "o","t"," ","n","u","l","l"," ","R","E","F","E","R","E","N","C","E","S"," ","t","e","a",
      "m","s","(","i","d",")",",","\n"," "," ","C","O","N","S","T","R","A","I","N","T"," ","u",
      "q"," ","U","N","I","Q","U","E"," ","(","t","e","a","m","_","i","d",")",",","\n"," "," ",
      "f","o","r","e","i","g","n"," ","k","e","y"," ","(","t","e","a","m","_","i","d",")"," ",
      "r","e","f","e","r","e","n","c","e","s"," ","t","e","a","m","s","(","i","d",")","\n",")",
      ";">>

\* a type token that holds a comma
BlockPrices ==
    <<"C","R","E","A","T","E"," ","T","A","B","L","E"," ","p","r","i","c","e","s"," ","(","\n",
      " "," ","s","k","u"," ","T","E","X","T"," ","P","R","I","M","A","R","Y"," ","K","E","Y",
      ",","\n"," "," ","a","m","o","u","n","t"," ","D","E","C","I","M","A","L","(","1","0",",",
      "2",")"," ","N","O","T"," ","N","U","L","L","\n",")",";">>

\* Type tokens: the keys of the mappings, some in other letter cases, and tokens
\* that are no key
TypeTokens ==
    { <<"T","E","X","T">>,
      <<"t","e","x","t">>,
      <<"V","A","R","C","H","A","R">>,
      <<"I","N","T","E","G","E","R">>,
      <<"I","n","t","e","g","e","r">>,
      <<"B","I","G","I","N","T">>,
      <<"B","O","O","L","E","A","N">>,
      <<"T","I","M","E","S","T","A","M","P">>,
      <<"U","U","I","D">>,
      <<"u","u","i","d">>,
      <<"J","S","O","N","B">>,
      <<"J","S","O","N">>,
      <<"S","E","R","I","A","L">>,
      <<"V","A","R","C","H","A","R","(","2","5","5",")">> }
-----------------------------------------------------------------------------
(* Inputs                                                                  *)

\* How many CREATE TABLE blocks a schema file holds at most
MaxBlocks == 2

\* How many times a type property is read at most
MaxReads == 2

Blocks == {BlockUsersOneLine, BlockUsersLines, BlockX, BlockPgX, BlockUserProfiles}

\* The schema files: every sequence of at most MaxBlocks blocks
Schemas == UNION { [1..n -> Blocks] : n \in 0..MaxBlocks }

\* The text of a schema file: its blocks, one after the other, each ended by a line break
RECURSIVE SchemaText(_)
SchemaText(blocks) ==
    IF blocks = <<>> THEN <<>> ELSE Head(blocks) \o <<"\n">> \o SchemaText(Tail(blocks))

\* The texts parse_sql_schema is exercised with on its own: well-formed blocks,
\* a block with two PRIMARY KEY lines, a truncated block, text without a block
ParseBlocks ==
    {BlockUsersLines, BlockUserProfiles, BlockOrders, BlockOrderItems, BlockTruncated,
     BlockNoise, BlockX, BlockTags, BlockMemberships, BlockPrices}

ParseSchemas == UNION { [1..n -> ParseBlocks] : n \in 0..MaxBlocks }

\* The schema files of the calls made against a file system that holds files already,
\* that may refuse a write, and that are made again
EnvSchemas ==
    { <<>>, <<BlockNoise>>, <<BlockUsersLines>>, <<BlockX, BlockPgX>>,
      <<BlockUserProfiles, BlockOrders>> }

\* How many times generate_dao_from_schema is called with the same arguments at most
MaxRuns == 2

\* What output_dir holds before the first call: it does not exist, it is empty, or it
\* holds files of an earlier, different generation and a file of the user
StaleText == <<"// stale">>
StaleFiles ==
    [p \in {"model/users/model.rs", "dao/pg_x_dao.hpp", "users/__init__.py", "x.go",
            "README.md"} |-> StaleText]
FileSystems ==
    { [dirs |-> {}, files |-> <<>>],
      [dirs |-> {"."}, files |-> <<>>],
      [dirs |-> {".", "model", "model/users", "dao", "users"}, files |-> StaleFiles] }

\* The keys of the dictionary `generators`
Generators == {"rust", "cpp", "python", "go"}

\* The values of --lang tried: the four registered names and one that is not
Languages == Generators \cup {"java"}

ServiceNames == { <<"s","e","r","v","i","c","e">>, <<"M","y","-","A","p","i">> }

OutputDir == "./src"

\* The values a mock DAO is exercised with: primary-key values and the rest of an entity
Keys == {"k1", "k2"}
Payloads == {"a", "b"}
Entities == [id : Keys, data : Payloads]

\* Who holds a clone of the mock
Holders == {"h1", "h2"}

\* How many entities with_data is given at most
MaxData == 2

Columns ==
    { DatabaseColumn(<<"c">>, t, n, p) : t \in TypeTokens, n \in BOOLEAN, p \in BOOLEAN }

-----------------------------------------------------------------------------
(* The artifacts of one table: what the loop body of each language writes  *)

Artifact(dir, path, content) == [dir |-> dir, path |-> path, content |-> content]

\* Mutant: the mock DAO is not written
RustArtifactsNoMock(table) ==
    LET table_dir == "model/" \o Str(table.name)
    IN << Artifact(table_dir, table_dir \o "/model.rs", Rust_generate_model(table)),
          Artifact(table_dir, table_dir \o "/dao.rs", Rust_generate_dao_trait(table)),
          Artifact(table_dir, table_dir \o "/pg_dao.rs", Rust_generate_pg_dao_impl(table)),
          Artifact(table_dir, table_dir \o "/mod.rs", Rust_mod_rs) >>

RustArtifacts(table) ==
    LET table_dir == "model/" \o Str(table.name)
    IN << Artifact(table_dir, table_dir \o "/model.rs", Rust_generate_model(table)),
          Artifact(table_dir, table_dir \o "/dao.rs", Rust_generate_dao_trait(table)),
          Artifact(table_dir, table_dir \o "/pg_dao.rs", Rust_generate_pg_dao_impl(table)),
          Artifact(table_dir, table_dir \o "/mock_dao.rs", Rust_generate_mock_dao(table)),
          Artifact(table_dir, table_dir \o "/mod.rs", Rust_mod_rs) >>

\* Mutant: the concrete DAO is not written
CppArtifactsNoStore(table) ==
    << Artifact("models", "models/" \o Str(table.name) \o ".hpp", Cpp_generate_model(table)),
       Artifact("dao", "dao/" \o Str(table.name) \o "_dao.hpp",
                Cpp_generate_dao_interface(table)) >>

CppArtifacts(table) ==
    << Artifact("models", "models/" \o Str(table.name) \o ".hpp", Cpp_generate_model(table)),
       Artifact("dao", "dao/" \o Str(table.name) \o "_dao.hpp",
                Cpp_generate_dao_interface(table)),
       Artifact("dao", "dao/pg_" \o Str(table.name) \o "_dao.hpp",
                Cpp_generate_pg_dao_impl(table)) >>

PythonArtifacts(table) ==
    LET table_dir == Str(table.name)
    IN << Artifact(table_dir, table_dir \o "/models.py", Python_generate_model(table)),
          Artifact(table_dir, table_dir \o "/dao.py", Python_generate_dao_interface(table)),
          Artifact(table_dir, table_dir \o "/sqlalchemy_dao.py",
                   Python_generate_sqlalchemy_dao(table)),
          Artifact(table_dir, table_dir \o "/__init__.py", Python_init_py(table)) >>

\* Mutant: the concrete DAO of a table is written to <table>_pg_dao.go
GoArtifactsPgSuffix(table, service) ==
    << Artifact(".", Str(table.name) \o ".go", Go_generate_model(table, service)),
       Artifact(".", Str(table.name) \o "_dao.go", Go_generate_dao_interface(table, service)),
       Artifact(".", Str(table.name) \o "_pg_dao.go",
                Go_generate_pg_dao_impl(table, service)) >>

GoArtifacts(table, service) ==
    << Artifact(".", Str(table.name) \o ".go", Go_generate_model(table, service)),
       Artifact(".", Str(table.name) \o "_dao.go", Go_generate_dao_interface(table, service)),
       Artifact(".", "pg_" \o Str(table.name) \o "_dao.go",
                Go_generate_pg_dao_impl(table, service)) >>

Artifacts(lang, table, service) ==
    CASE lang = "rust"   -> RustArtifacts(table)
      [] lang = "cpp"    -> CppArtifacts(table)
      [] lang = "python" -> PythonArtifacts(table)
      [] lang = "go"     -> GoArtifacts(table, service)
      [] OTHER           -> <<>>

\* The directories the loop body creates with mkdir(parents=True, exist_ok=True)
\* before it writes, the parents included
MkDirs(lang, table) ==
    CASE lang = "rust"   -> {".", "model", "model/" \o Str(table.name)}
      [] lang = "cpp"    -> {".", "models", "dao"}
      [] lang = "python" -> {".", Str(table.name)}
      [] lang = "go"     -> {}
      [] OTHER           -> {}

\* Mutant: the file is opened with 'a': the text is added to what the file holds
WriteFileAppends(fs, path, content) ==
    [p \in DOMAIN fs \cup {path} |->
        IF p = path THEN (IF p \in DOMAIN fs THEN fs[p] \o content ELSE content) ELSE fs[p]]

\* open(path, 'w') followed by f.write(content): the file is created or replaced
WriteFile(fs, path, content) ==
    [p \in DOMAIN fs \cup {path} |-> IF p = path THEN content ELSE fs[p]]

\* One completed write: the table of the loop iteration, the path and the text
Written(t, path, content) == [table |-> t, path |-> path, content |-> content]

\* language.upper() of a registered language
LanguageUpper(lang) ==
    CASE lang = "rust"   -> "RUST"
      [] lang = "cpp"    -> "CPP"
      [] lang = "python" -> "PYTHON"
      [] lang = "go"     -> "GO"

\* The argument of success()
Report(prefix, n) == [prefix |-> prefix, tables |-> n, dir |-> OutputDir]

-----------------------------------------------------------------------------
(* generate_dao_from_schema and generate_rust_dao_from_schema              *)

\* No holder has called the mock
LockIdle ==
    /\ mutex = "free"
    /\ holders = [h \in Holders |->
                    [pc |-> "idle",
                     call |-> [op |-> "none", id |-> "-", entity |-> [id |-> "-", data |-> "-"]],
                     seen |-> <<>>,
                     ret |-> [kind |-> "unit", val |-> "()"],
                     ok |-> TRUE]]
    /\ seq_entities = <<>>

MockIdle ==
    /\ LockIdle
    /\ entities = <<>>
    /\ prevEntities = <<>>
    /\ lastOp = [op |-> "new", id |-> "-", entity |-> [id |-> "-", data |-> "-"]]
    /\ prevOp = [op |-> "new", id |-> "-", entity |-> [id |-> "-", data |-> "-"]]
    /\ lastRet = [kind |-> "unit", val |-> "()"]

TypeIdle ==
    /\ column = DatabaseColumn(<<"c">>, <<"T","E","X","T">>, FALSE, FALSE)
    /\ backend = "rust"
    /\ resolved = <<>>

GenIdle ==
    /\ pc = "idle"
    /\ language = "rust"
    /\ service_name = <<"s","e","r","v","i","c","e">>
    /\ schema_blocks = <<>>
    /\ schema_exists = TRUE
    /\ schema_content = <<>>
    /\ tables = <<>>
    /\ ti = 1
    /\ step = 0
    /\ dirs = {"."}
    /\ files = <<>>
    /\ reports = <<>>
    /\ raised = "none"
    /\ reads = 0
    /\ written = <<>>
    /\ files_before = <<>>
    /\ runs = 0

\* Before the call: an output directory that exists or not, a schema file that can
\* be opened or not
Init ==
    /\ pc = "idle"
    /\ language = "rust"
    /\ service_name = <<"s","e","r","v","i","c","e">>
    /\ schema_blocks \in Schemas
    /\ schema_exists \in BOOLEAN
    /\ schema_content = <<>>
    /\ tables = <<>>
    /\ ti = 1
    /\ step = 0
    /\ dirs \in {{}, {"."}}
    /\ files = <<>>
    /\ reports = <<>>
    /\ raised = "none"
    /\ reads = 0
    /\ written = <<>>
    /\ files_before = <<>>
    /\ runs = 0
    /\ MockIdle
    /\ TypeIdle

\* What a step of the call leaves alone, and what a step that neither begins a call
\* nor writes a file leaves alone
callFrame == UNCHANGED <<mockVars, typeVars>>
genFrame == UNCHANGED <<written, files_before, runs, mockVars, typeVars>>

\* generate_dao_from_schema(schema_file, output_dir, service_name, language) is called
Call(lang, service) ==
    /\ pc = "idle"
    /\ language' = lang
    /\ service_name' = service
    /\ pc' = "check_language"
    /\ written' = <<>>
    /\ files_before' = files
    /\ runs' = runs + 1
    /\ UNCHANGED <<schema_blocks, schema_exists, schema_content, tables, ti, step, dirs,
                   files, reports, raised, reads>>
    /\ callFrame

\* Mutant: the language is not checked before the schema file is opened
CheckLanguageSkipped ==
    /\ pc = "check_language"
    /\ pc' = "open_schema"
    /\ UNCHANGED <<language, service_name, schema_blocks, schema_exists, schema_content,
                   tables, ti, step, dirs, files, reports, raised, reads>>
    /\ genFrame

\* if language not in generators: raise ValueError
CheckLanguage ==
    /\ pc = "check_language"
    /\ IF language \notin Generators
       THEN /\ raised' = "ValueError"
            /\ pc' = "raised"
       ELSE /\ raised' = raised
            /\ pc' = "open_schema"
    /\ UNCHANGED <<language, service_name, schema_blocks, schema_exists, schema_content,
                   tables, ti, step, dirs, files, reports, reads>>
    /\ genFrame

\* Mutant: a schema file that cannot be opened reads as an empty one
ReadSchemaMissingAsEmpty(next) ==
    /\ schema_content' = IF schema_exists THEN SchemaText(schema_blocks) ELSE <<>>
    /\ reads' = reads + 1
    /\ pc' = next
    /\ UNCHANGED <<language, service_name, schema_blocks, schema_exists, tables, ti, step,
                   dirs, files, reports, raised>>
    /\ genFrame

\* with open(schema_file, 'r') as f: schema_content = f.read()
ReadSchema(next) ==
    /\ IF ~schema_exists
       THEN /\ raised' = "FileNotFoundError"
            /\ pc' = "raised"
            /\ UNCHANGED <<schema_content, reads>>
       ELSE /\ schema_content' = SchemaText(schema_blocks)
            /\ reads' = reads + 1
            /\ pc' = next
            /\ raised' = raised
    /\ UNCHANGED <<language, service_name, schema_blocks, schema_exists, tables, ti, step,
                   dirs, files, reports>>
    /\ genFrame

OpenSchema ==
    /\ pc = "open_schema"
    /\ ReadSchema("parse")

\* tables = rust_generator.parse_sql_schema(schema_content)
ParseSchema(next) ==
    /\ tables' = parse_sql_schema(schema_content)
    /\ pc' = next
    /\ UNCHANGED <<language, service_name, schema_blocks, schema_exists, schema_content,
                   ti, step, dirs, files, reports, raised, reads>>
    /\ genFrame

Parse ==
    /\ pc = "parse"
    /\ ParseSchema("dispatch")

\* if language == 'rust': generate_rust_dao_from_schema(...)  elif ...: for table in tables
Dispatch ==
    /\ pc = "dispatch"
    /\ pc' = IF language = "rust" THEN "rust_open" ELSE "loop"
    /\ ti' = 1
    /\ step' = 0
    /\ UNCHANGED <<language, service_name, schema_blocks, schema_exists, schema_content,
                   tables, dirs, files, reports, raised, reads>>
    /\ genFrame

\* generate_rust_dao_from_schema opens and reads the schema file itself
RustOpen ==
    /\ pc = "rust_open"
    /\ ReadSchema("rust_parse")

\* ... and parses it itself
RustParse ==
    /\ pc = "rust_parse"
    /\ ParseSchema("loop")

\* The head of one loop iteration: the mkdir calls of the language
MakeDirs ==
    /\ pc = "loop"
    /\ ti <= Len(tables)
    /\ step = 0
    /\ dirs' = dirs \cup MkDirs(language, tables[ti])
    /\ step' = 1
    /\ UNCHANGED <<pc, language, service_name, schema_blocks, schema_exists,
                   schema_content, tables, ti, files, reports, raised, reads>>
    /\ genFrame

\* One `with open(path, 'w') as f: f.write(...)` of the loop body
WriteArtifact ==
    /\ pc = "loop"
    /\ ti <= Len(tables)
    /\ step >= 1
    /\ LET arts == Artifacts(language, tables[ti], service_name)
           a    == arts[step]
       IN IF a.dir \notin dirs
          THEN /\ raised' = "FileNotFoundError"
               /\ pc' = "raised"
               /\ UNCHANGED <<files, ti, step, written>>
          ELSE /\ files' = WriteFile(files, a.path, a.content)
               /\ written' = Append(written, Written(ti, a.path, a.content))
               /\ IF step = Len(arts)
                  THEN ti' = ti + 1 /\ step' = 0
                  ELSE ti' = ti /\ step' = step + 1
               /\ UNCHANGED <<pc, raised>>
    /\ UNCHANGED <<language, service_name, schema_blocks, schema_exists, schema_content,
                   tables, dirs, reports, reads, files_before, runs>>
    /\ callFrame

\* The loop is exhausted
LoopEnd ==
    /\ pc = "loop"
    /\ ti > Len(tables)
    /\ pc' = IF language = "rust" THEN "rust_success" ELSE "success"
    /\ UNCHANGED <<language, service_name, schema_blocks, schema_exists, schema_content,
                   tables, ti, step, dirs, files, reports, raised, reads>>
    /\ genFrame

\* success(f"Generated DAO structure for {len(tables)} tables in {output_dir}")
RustSuccess ==
    /\ pc = "rust_success"
    /\ reports' = Append(reports, Report("Generated DAO structure for", Len(tables)))
    /\ pc' = "success"
    /\ UNCHANGED <<language, service_name, schema_blocks, schema_exists, schema_content,
                   tables, ti, step, dirs, files, raised, reads>>
    /\ genFrame

\* Mutant: a schema without tables is rejected instead of reported
SuccessRejectsEmpty ==
    /\ pc = "success"
    /\ IF Len(tables) = 0
       THEN /\ raised' = "ValueError"
            /\ pc' = "raised"
            /\ UNCHANGED reports
       ELSE /\ reports' = Append(reports,
                                 Report("Generated " \o LanguageUpper(language)
                                            \o " DAO structure for", Len(tables)))
            /\ pc' = "done"
            /\ UNCHANGED raised
    /\ UNCHANGED <<language, service_name, schema_blocks, schema_exists, schema_content,
                   tables, ti, step, dirs, files, reads>>
    /\ genFrame

\* success(f"Generated {language.upper()} DAO structure for {len(tables)} tables in ...")
Success ==
    /\ pc = "success"
    /\ reports' = Append(reports,
                         Report("Generated " \o LanguageUpper(language) \o " DAO structure for",
                                Len(tables)))
    /\ pc' = "done"
    /\ UNCHANGED <<language, service_name, schema_blocks, schema_exists, schema_content,
                   tables, ti, step, dirs, files, raised, reads>>
    /\ genFrame

Next ==
    \/ \E lang \in Languages, service \in ServiceNames : Call(lang, service)
    \/ CheckLanguage
    \/ OpenSchema
    \/ Parse
    \/ Dispatch
    \/ RustOpen
    \/ RustParse
    \/ MakeDirs
    \/ WriteArtifact
    \/ LoopEnd
    \/ RustSuccess
    \/ Success

Spec == Init /\ [][Next]_vars

-----------------------------------------------------------------------------
(* parse_sql_schema on its own: the schema file is read and parsed           *)

ParseInit ==
    /\ pc = "open_schema"
    /\ language = "rust"
    /\ service_name = <<"s","e","r","v","i","c","e">>
    /\ schema_blocks \in ParseSchemas
    /\ schema_exists = TRUE
    /\ schema_content = <<>>
    /\ tables = <<>>
    /\ ti = 1
    /\ step = 0
    /\ dirs = {"."}
    /\ files = <<>>
    /\ reports = <<>>
    /\ raised = "none"
    /\ reads = 0
    /\ written = <<>>
    /\ files_before = <<>>
    /\ runs = 1
    /\ MockIdle
    /\ TypeIdle

ParseNext ==
    \/ OpenSchema
    \/ Parse

SpecParse == ParseInit /\ [][ParseNext]_vars

-----------------------------------------------------------------------------
(* generate_dao_from_schema against a file system that holds files already   *)
(* and may refuse a write, called again with the same arguments              *)

EnvInit ==
    /\ pc = "idle"
    /\ language = "rust"
    /\ service_name = <<"s","e","r","v","i","c","e">>
    /\ schema_blocks \in EnvSchemas
    /\ schema_exists = TRUE
    /\ schema_content = <<>>
    /\ tables = <<>>
    /\ ti = 1
    /\ step = 0
    /\ \E fs \in FileSystems : dirs = fs.dirs /\ files = fs.files
    /\ reports = <<>>
    /\ raised = "none"
    /\ reads = 0
    /\ written = <<>>
    /\ files_before = <<>>
    /\ runs = 0
    /\ MockIdle
    /\ TypeIdle

\* `with open(path, 'w') as f: f.write(...)` fails with an OSError (no permission, a
\* full disk): open() fails and the file is untouched, or the file was opened, which
\* creates or empties it, and the text does not reach it
FailWrite ==
    /\ pc = "loop"
    /\ ti <= Len(tables)
    /\ step >= 1
    /\ LET a == Artifacts(language, tables[ti], service_name)[step]
       IN /\ a.dir \in dirs
          /\ \E opened \in BOOLEAN :
                files' = IF opened THEN WriteFile(files, a.path, <<>>) ELSE files
    /\ raised' = "OSError"
    /\ pc' = "raised"
    /\ UNCHANGED <<language, service_name, schema_blocks, schema_exists, schema_content,
                   tables, ti, step, dirs, reports, reads>>
    /\ genFrame

\* After a call that returned, generate_dao_from_schema is called again with the same
\* schema file, language, output directory and service name
CallAgain ==
    /\ pc = "done"
    /\ runs < MaxRuns
    /\ pc' = "check_language"
    /\ written' = <<>>
    /\ files_before' = files
    /\ runs' = runs + 1
    /\ UNCHANGED <<language, service_name, schema_blocks, schema_exists, schema_content,
                   tables, ti, step, dirs, files, reports, raised, reads>>
    /\ callFrame

EnvNext ==
    \/ Next
    \/ FailWrite
    \/ CallAgain

SpecEnv == EnvInit /\ [][EnvNext]_vars

-----------------------------------------------------------------------------
(* The generated mock DAO: Mock<T>DAO, behind Arc<Mutex<HashMap<key, T>>>  *)
(* Every method locks the map for its whole body, so each is one step.     *)

Some(x) == <<x>>
NoValue == <<>>

\* entity.<primary key field>
KeyOf(entity) == entity.id

\* HashMap::insert
MapInsert(map, key, entity) ==
    [k \in DOMAIN map \cup {key} |-> IF k = key THEN entity ELSE map[k]]

\* HashMap::remove
MapRemove(map, key) == [k \in DOMAIN map \ {key} |-> map[k]]

\* with_data: the entities are inserted in order, each under its key
RECURSIVE Mock_with_data(_)
Mock_with_data(vec) ==
    IF vec = <<>> THEN <<>>
    ELSE LET e == vec[Len(vec)]
         IN MapInsert(Mock_with_data(SubSeq(vec, 1, Len(vec) - 1)), KeyOf(e), e)

\* find_by_id: entities.get(&id).cloned()
Mock_find_by_id(map, id) == IF id \in DOMAIN map THEN Some(map[id]) ELSE NoValue

\* find_all: entities.values().cloned().collect(), in the map's iteration order,
\* which is any order
Mock_find_all(map) ==
    { v \in UNION { [1..n -> Entities] : n \in {Cardinality(DOMAIN map)} } :
        \E f \in [1..Cardinality(DOMAIN map) -> DOMAIN map] :
            /\ \A k \in DOMAIN map : \E i \in DOMAIN f : f[i] = k
            /\ \A i \in DOMAIN f : v[i] = map[f[i]] }

\* Mutant: entities.entry(key).or_insert(entity.clone()), which keeps a stored entry
Mock_create_keeps_stored(map, entity) ==
    IF KeyOf(entity) \in DOMAIN map THEN map ELSE MapInsert(map, KeyOf(entity), entity)

\* create: entities.insert(entity.<key>, entity.clone())
Mock_create(map, entity) == MapInsert(map, KeyOf(entity), entity)

\* update: entities.insert(id, entity.clone())
Mock_update(map, id, entity) == MapInsert(map, id, entity)

\* Mutant: entities.clear()
Mock_delete_clears(map, id) == <<>>

\* delete: entities.remove(&id)
Mock_delete(map, id) == MapRemove(map, id)

NoEntity == [id |-> "-", data |-> "-"]
Called(op, id, entity) == [op |-> op, id |-> id, entity |-> entity]
Returned(kind, val) == [kind |-> kind, val |-> val]

mockFrame == UNCHANGED <<genVars, typeVars>>

MockStep(call, map, ret) ==
    /\ prevOp' = lastOp
    /\ lastOp' = call
    /\ prevEntities' = entities
    /\ entities' = map
    /\ lastRet' = ret
    /\ UNCHANGED lockVars
    /\ mockFrame

FindById(id) ==
    MockStep(Called("find_by_id", id, NoEntity), entities,
             Returned("option", Mock_find_by_id(entities, id)))

FindAll ==
    \E v \in Mock_find_all(entities) :
        MockStep(Called("find_all", "-", NoEntity), entities, Returned("vec", v))

Create(entity) ==
    MockStep(Called("create", KeyOf(entity), entity), Mock_create(entities, entity),
             Returned("key", KeyOf(entity)))

Update(id, entity) ==
    MockStep(Called("update", id, entity), Mock_update(entities, id, entity),
             Returned("unit", "()"))

Delete(id) ==
    MockStep(Called("delete", id, NoEntity), Mock_delete(entities, id),
             Returned("unit", "()"))

\* After construction: new() or with_data(..)
MockInit ==
    /\ \E vec \in UNION { [1..n -> Entities] : n \in 0..MaxData } :
          entities = Mock_with_data(vec)
    /\ prevEntities = <<>>
    /\ lastOp = Called("new", "-", NoEntity)
    /\ prevOp = Called("new", "-", NoEntity)
    /\ lastRet = Returned("unit", "()")
    /\ LockIdle
    /\ GenIdle
    /\ TypeIdle

MockNext ==
    \/ \E id \in Keys : FindById(id)
    \/ FindAll
    \/ \E e \in Entities : Create(e)
    \/ \E id \in Keys, e \in Entities : Update(id, e)
    \/ \E id \in Keys : Delete(id)

SpecMock == MockInit /\ [][MockNext]_vars

-----------------------------------------------------------------------------
(* Clones of the mock called by several holders                             *)

\* #[derive(Clone)] on a struct whose one field is Arc<Mutex<HashMap<..>>>: a clone
\* holds the same Mutex and the same map, which is the one variable entities.

\* What a call does to the map
Effect(call, map) ==
    CASE call.op = "create" -> Mock_create(map, call.entity)
      [] call.op = "update" -> Mock_update(map, call.id, call.entity)
      [] call.op = "delete" -> Mock_delete(map, call.id)
      [] OTHER -> map

\* What a call may return on a map
Results(call, map) ==
    CASE call.op = "find_by_id" -> { Returned("option", Mock_find_by_id(map, call.id)) }
      [] call.op = "find_all" -> { Returned("vec", v) : v \in Mock_find_all(map) }
      [] call.op = "create" -> { Returned("key", KeyOf(call.entity)) }
      [] OTHER -> { Returned("unit", "()") }

\* The calls a holder can make
Calls ==
    { Called("find_by_id", id, NoEntity) : id \in Keys }
    \cup { Called("find_all", "-", NoEntity) }
    \cup { Called("create", KeyOf(e), e) : e \in Entities }
    \cup { Called("update", id, e) : id \in Keys, e \in Entities }
    \cup { Called("delete", id, NoEntity) : id \in Keys }

lockFrame ==
    /\ UNCHANGED <<lastOp, prevOp, lastRet, prevEntities>>
    /\ mockFrame

\* A holder calls an operation on its clone
Invoke(h, call) ==
    /\ holders[h].pc \in {"idle", "returned"}
    /\ holders' = [holders EXCEPT ![h] = [pc |-> "waiting", call |-> call, seen |-> <<>>,
                                          ret |-> Returned("unit", "()"), ok |-> TRUE]]
    /\ UNCHANGED <<mutex, entities, seq_entities>>
    /\ lockFrame

\* Mutant: lock() returns the guard at once, whoever holds the mutex
LockNoWait(h) ==
    /\ holders[h].pc = "waiting"
    /\ mutex' = h
    /\ holders' = [holders EXCEPT ![h].pc = "locked"]
    /\ UNCHANGED <<entities, seq_entities>>
    /\ lockFrame

\* let entities = self.entities.lock().unwrap(): the first statement of every
\* operation; it blocks while another holder has the guard
Lock(h) ==
    /\ holders[h].pc = "waiting"
    /\ mutex = "free"
    /\ mutex' = h
    /\ holders' = [holders EXCEPT ![h].pc = "locked"]
    /\ UNCHANGED <<entities, seq_entities>>
    /\ lockFrame

\* The HashMap call of the operation reads the table through the guard ...
Load(h) ==
    /\ holders[h].pc = "locked"
    /\ holders' = [holders EXCEPT ![h].pc = "loaded", ![h].seen = entities]
    /\ UNCHANGED <<mutex, entities, seq_entities>>
    /\ lockFrame

\* ... and takes effect on what it read: get / values / insert / remove. The call
\* takes effect here, so here it is applied to seq_entities too, and its result is
\* compared with what it gives there.
Apply(h) ==
    /\ holders[h].pc = "loaded"
    /\ \E r \in Results(holders[h].call, holders[h].seen) :
          holders' = [holders EXCEPT ![h].pc = "applied", ![h].ret = r,
                                     ![h].ok = (r \in Results(holders[h].call, seq_entities))]
    /\ entities' = Effect(holders[h].call, holders[h].seen)
    /\ seq_entities' = Effect(holders[h].call, seq_entities)
    /\ UNCHANGED mutex
    /\ lockFrame

\* Ok(..): the guard goes out of scope at the end of the function and unlocks
Return(h) ==
    /\ holders[h].pc = "applied"
    /\ mutex' = "free"
    /\ holders' = [holders EXCEPT ![h].pc = "returned", ![h].seen = <<>>,
                                  ![h].ret = Returned("unit", "()")]
    /\ UNCHANGED <<entities, seq_entities>>
    /\ lockFrame

\* After construction (new() or with_data(..)) and cloning
LockInit ==
    /\ \E vec \in UNION { [1..n -> Entities] : n \in 0..MaxData } :
          /\ entities = Mock_with_data(vec)
          /\ seq_entities = Mock_with_data(vec)
    /\ mutex = "free"
    /\ holders = [h \in Holders |->
                    [pc |-> "idle", call |-> Called("none", "-", NoEntity), seen |-> <<>>,
                     ret |-> Returned("unit", "()"), ok |-> TRUE]]
    /\ prevEntities = <<>>
    /\ lastOp = Called("new", "-", NoEntity)
    /\ prevOp = Called("new", "-", NoEntity)
    /\ lastRet = Returned("unit", "()")
    /\ GenIdle
    /\ TypeIdle

LockNext ==
    \E h \in Holders :
        \/ \E call \in Calls : Invoke(h, call)
        \/ Lock(h)
        \/ Load(h)
        \/ Apply(h)
        \/ Return(h)

SpecLock == LockInit /\ [][LockNext]_vars

-----------------------------------------------------------------------------
(* Reading the type properties of a column                                 *)

ResolveType(lang, col) ==
    CASE lang = "rust"   -> rust_type(col)
      [] lang = "cpp"    -> cpp_type(col)
      [] lang = "python" -> python_type(col)
      [] lang = "go"     -> go_type(col)

TypeInit ==
    /\ column \in Columns
    /\ backend \in Generators
    /\ resolved = <<>>
    /\ GenIdle
    /\ MockIdle

\* col.rust_type, col.cpp_type, col.python_type or col.go_type is read
ReadType ==
    /\ Len(resolved) < MaxReads
    /\ resolved' = Append(resolved, ResolveType(backend, column))
    /\ UNCHANGED <<column, backend, genVars, mockVars>>

TypeNext == ReadType

SpecType == TypeInit /\ [][TypeNext]_vars

-----------------------------------------------------------------------------
(* Properties                                                              *)

UsersName == <<"u","s","e","r","s">>

ColumnNames(table) == [i \in DOMAIN table.columns |-> Str(table.columns[i].name)]

PathsOf(lang, table, service) ==
    { Artifacts(lang, table, service)[i].path : i \in DOMAIN Artifacts(lang, table, service) }

HasChunk(content, chunk) == \E i \in DOMAIN content : content[i] = chunk

\* C1: parsing the one-line schema CREATE TABLE users (id UUID PRIMARY KEY, email
\* VARCHAR NOT NULL, bio TEXT); returns one table users with the three columns id
\* (Uuid, primary key, non-null), email (Text, non-null), bio (Text, nullable), in
\* this order.
C1_OneLineSchemaThreeColumns ==
    (pc = "dispatch" /\ schema_blocks = <<BlockUsersOneLine>>) =>
        /\ Len(tables) = 1
        /\ tables[1].name = UsersName
        /\ ColumnNames(tables[1]) = <<"id", "email", "bio">>
        /\ LET c == tables[1].columns
           IN /\ c[1].primary_key /\ ~c[1].nullable /\ rust_type(c[1]) = <<"Uuid">>
              /\ ~c[2].primary_key /\ ~c[2].nullable /\ rust_type(c[2]) = <<"String">>
              /\ ~c[3].primary_key /\ c[3].nullable
              /\ rust_type(c[3]) = <<"Option<", "String", ">">>

\* C2: a call with a language that is not registered raises ValueError (the
\* UnsupportedBackend failure) at the language check; no step of such a call reads
\* or parses the schema file, creates a directory, writes a file or reports success,
\* whether or not the schema file exists.
C2_UnsupportedBackendFailsFast ==
    [][ language' \notin Generators =>
          /\ UNCHANGED <<reads, schema_content, tables, dirs, files, reports>>
          /\ pc' \in {"check_language", "raised"}
          /\ pc' = "raised" => raised' = "ValueError" ]_vars

C2_Witness ==
    /\ pc = "raised"
    /\ raised = "ValueError"
    /\ language \notin Generators
    /\ ~schema_exists

\* C3: a call with a registered language and a schema file that cannot be opened
\* raises FileNotFoundError (the SchemaFileNotFound failure); no step of such a call
\* creates a directory, writes a file or reports success, for every language.
C3_MissingSchemaNoPartialWork ==
    [][ (language' \in Generators /\ ~schema_exists /\ pc # "idle") =>
          /\ UNCHANGED <<dirs, files, reports, tables>>
          /\ pc' \in {"open_schema", "raised"}
          /\ pc' = "raised" => raised' = "FileNotFoundError" ]_vars

C3_Witness ==
    /\ pc = "raised"
    /\ raised = "FileNotFoundError"
    /\ language = "cpp"
    /\ ~schema_exists
    /\ files = <<>>

UsersRustPaths ==
    {"model/users/model.rs", "model/users/dao.rs", "model/users/pg_dao.rs",
     "model/users/mock_dao.rs", "model/users/mod.rs"}

SingleUsersRustDone ==
    /\ pc = "done"
    /\ language = "rust"
    /\ Len(tables) = 1
    /\ tables[1].name = UsersName

\* C4 as claimed: a Rust generation for the single table users writes exactly five
\* files under model/users/, and each of the five holds the identifier Users.
C4_Original_EveryFileNamesUsers ==
    SingleUsersRustDone =>
        /\ DOMAIN files = UsersRustPaths
        /\ \A p \in DOMAIN files : HasChunk(files[p], "Users")

\* C4 as amended: a Rust generation for the single table users writes exactly five
\* files under model/users/ (model, dao, pg_dao, mock_dao, mod); model.rs, dao.rs,
\* pg_dao.rs and mock_dao.rs hold the identifier Users, and mod.rs, whose text is the
\* same for every table, does not.
C4_FiveFilesFourNameUsers ==
    SingleUsersRustDone =>
        /\ DOMAIN files = UsersRustPaths
        /\ \A p \in UsersRustPaths \ {"model/users/mod.rs"} : HasChunk(files[p], "Users")
        /\ ~HasChunk(files["model/users/mod.rs"], "Users")
        /\ files["model/users/mod.rs"] = Rust_mod_rs

C4_Witness ==
    /\ SingleUsersRustDone
    /\ schema_blocks = <<BlockUsersOneLine>>
    /\ DOMAIN files = UsersRustPaths

\* The tables a block yields when it is the whole schema file
TablesOfBlock(block) == parse_sql_schema(SchemaText(<<block>>))

\* C5: for a schema of two CREATE TABLE blocks (here: declaring tables of different
\* names) and every language, the artifacts of each table, paths and contents, are
\* those generated from the schema that holds that table's block alone.
C5_OtherTableNeverAffectsOutput ==
    (/\ pc = "done"
     /\ Len(schema_blocks) = 2
     /\ Len(tables) = 2
     /\ tables[1].name # tables[2].name) =>
        \A k \in 1..2 :
            \A n \in DOMAIN TablesOfBlock(schema_blocks[k]) :
                LET arts == Artifacts(language, TablesOfBlock(schema_blocks[k])[n],
                                      service_name)
                IN \A i \in DOMAIN arts :
                      /\ arts[i].path \in DOMAIN files
                      /\ files[arts[i].path] = arts[i].content

\* C6: for any two distinct tables of one schema and every language, the paths
\* written for one table are disjoint from the paths written for the other.
C6_TablePathsDisjoint ==
    (pc = "loop" /\ language \in Generators) =>
        \A i, j \in DOMAIN tables :
            tables[i].name # tables[j].name =>
                PathsOf(language, tables[i], service_name)
                    \cap PathsOf(language, tables[j], service_name) = {}

\* C7: create(entity) returns the entity's primary-key value, and a find_by_id of
\* that key called right after it returns the entity.
C7_CreateThenFind ==
    /\ lastOp.op = "create" =>
          /\ lastRet = Returned("key", KeyOf(lastOp.entity))
          /\ Mock_find_by_id(entities, KeyOf(lastOp.entity)) = Some(lastOp.entity)
    /\ (lastOp.op = "find_by_id" /\ prevOp.op = "create" /\ lastOp.id = KeyOf(prevOp.entity)) =>
          lastRet = Returned("option", Some(prevOp.entity))

\* a create that replaced a stored entity of the same key by a different one,
\* followed by the find_by_id of that key
C7_Witness ==
    /\ lastOp.op = "find_by_id"
    /\ prevOp.op = "create"
    /\ lastOp.id = KeyOf(prevOp.entity)
    /\ lastOp.id \in DOMAIN prevEntities
    /\ Cardinality(DOMAIN entities) = 2
    /\ lastRet.val = Some([id |-> "k1", data |-> "b"])

\* C8: delete(key) returns Ok(()) whether or not key is stored, removes the entry of
\* key and no other, leaves the map as it was when key was absent, and a find_by_id
\* of key called right after it returns no value.
C8_DeleteRemovesOnlyKey ==
    /\ lastOp.op = "delete" =>
          /\ lastRet = Returned("unit", "()")
          /\ DOMAIN entities = DOMAIN prevEntities \ {lastOp.id}
          /\ \A k \in DOMAIN entities : entities[k] = prevEntities[k]
          /\ lastOp.id \notin DOMAIN prevEntities => entities = prevEntities
          /\ Mock_find_by_id(entities, lastOp.id) = NoValue
    /\ (lastOp.op = "find_by_id" /\ prevOp.op = "delete" /\ lastOp.id = prevOp.id) =>
          lastRet = Returned("option", NoValue)

\* a delete of a stored key that left another entry in place
C8_Witness ==
    /\ lastOp.op = "delete"
    /\ lastOp.id \in DOMAIN prevEntities
    /\ Cardinality(DOMAIN prevEntities) = 2
    /\ Cardinality(DOMAIN entities) = 1

\* The optional construct of each language around a native type
WrapOptional(lang, native) ==
    CASE lang = "rust"   -> <<"Option<">> \o native \o <<">">>
      [] lang = "cpp"    -> <<"std::optional<">> \o native \o <<">">>
      [] lang = "python" -> <<"Optional[">> \o native \o <<"]">>
      [] lang = "go"     -> <<"*">> \o native

\* The native types of each language, one per type category
NativeTypes(lang) ==
    CASE lang = "rust"   -> Range(RustTypeMapping)
      [] lang = "cpp"    -> Range(CppTypeMapping)
      [] lang = "python" -> Range(PythonTypeMapping)
      [] lang = "go"     -> Range(GoTypeMapping)

\* The native type of a column: what the language resolves its type token to when the
\* column is declared NOT NULL
NativeType(lang, col) == ResolveType(lang, [col EXCEPT !.nullable = FALSE])

\* C9: for every language, type token and column, the resolved type is the
\* language's optional construct around the native type exactly when the column is
\* nullable and not the primary key, and the bare native type otherwise, so always
\* for a primary key.
C9_NullabilityRule ==
    \A i \in DOMAIN resolved :
        /\ Len(NativeType(backend, column)) = 1
        /\ NativeType(backend, column)[1] \in NativeTypes(backend)
        /\ resolved[i] = IF column.nullable /\ ~column.primary_key
                         THEN WrapOptional(backend, NativeType(backend, column))
                         ELSE NativeType(backend, column)
        /\ column.primary_key => resolved[i] = NativeType(backend, column)

\* a nullable primary key, resolved to the bare native type
C9_Witness ==
    /\ resolved # <<>>
    /\ column.nullable
    /\ column.primary_key
    /\ backend = "go"
    /\ resolved[1] = <<"uuid.UUID">>

IsTypeKey(token) == \E k \in DOMAIN TypeKeys : TypeKeys[k] = Str(StrUpper(token))

\* C10: for every language and type token, in any letter case or unrecognized,
\* reading the type returns a type of the language (bare or wrapped), the same at
\* every read; a token resolves as its upper-case spelling does, and a token that is
\* no key resolves as TEXT does.
C10_TotalDeterministicFallback ==
    \A i \in DOMAIN resolved :
        /\ \E t \in NativeTypes(backend) :
              resolved[i] \in {<<t>>, WrapOptional(backend, <<t>>)}
        /\ \A j \in DOMAIN resolved : resolved[i] = resolved[j]
        /\ resolved[i] = ResolveType(backend,
                                     [column EXCEPT !.column_type = StrUpper(column.column_type)])
        /\ ~IsTypeKey(column.column_type) =>
              resolved[i] = ResolveType(backend,
                                        [column EXCEPT !.column_type = <<"T","E","X","T">>])

\* an unrecognized token, read twice
C10_Witness ==
    /\ Len(resolved) = 2
    /\ ~IsTypeKey(column.column_type)
    /\ backend = "python"
    /\ column.nullable /\ ~column.primary_key
    /\ resolved[2] = <<"Optional[", "str", "]">>

-----------------------------------------------------------------------------
(* The artifacts a call writes                                             *)

\* The kinds of artifact of one table
ArtifactKinds == {"model", "dao", "store", "mock"}

\* The generate_* methods each generator class defines, by the kind of artifact
EmitterOperations(lang) ==
    CASE lang = "rust"   -> {"model", "dao", "store", "mock"}
      [] lang = "cpp"    -> {"model", "dao", "store"}
      [] lang = "python" -> {"model", "dao", "store"}
      [] lang = "go"     -> {"model", "dao", "store"}

\* The text the method of that kind returns for a table
Emit(lang, kind, table, service) ==
    CASE lang = "rust" /\ kind = "model"   -> Rust_generate_model(table)
      [] lang = "rust" /\ kind = "dao"     -> Rust_generate_dao_trait(table)
      [] lang = "rust" /\ kind = "store"   -> Rust_generate_pg_dao_impl(table)
      [] lang = "rust" /\ kind = "mock"    -> Rust_generate_mock_dao(table)
      [] lang = "cpp" /\ kind = "model"    -> Cpp_generate_model(table)
      [] lang = "cpp" /\ kind = "dao"      -> Cpp_generate_dao_interface(table)
      [] lang = "cpp" /\ kind = "store"    -> Cpp_generate_pg_dao_impl(table)
      [] lang = "python" /\ kind = "model" -> Python_generate_model(table)
      [] lang = "python" /\ kind = "dao"   -> Python_generate_dao_interface(table)
      [] lang = "python" /\ kind = "store" -> Python_generate_sqlalchemy_dao(table)
      [] lang = "go" /\ kind = "model"     -> Go_generate_model(table, service)
      [] lang = "go" /\ kind = "dao"       -> Go_generate_dao_interface(table, service)
      [] lang = "go" /\ kind = "store"     -> Go_generate_pg_dao_impl(table, service)

\* The module-wiring text of a table, for the languages that write one
Wiring(lang, table) ==
    CASE lang = "rust"   -> {Rust_mod_rs}
      [] lang = "python" -> {Python_init_py(table)}
      [] OTHER           -> {}

\* The writes the current call completed for the i-th table
WritesOf(i) == { written[k] : k \in { k \in DOMAIN written : written[k].table = i } }

\* The call wrote, for the i-th table, the text of the method of that kind
WroteKind(i, kind) ==
    /\ kind \in EmitterOperations(language)
    /\ \E w \in WritesOf(i) : w.content = Emit(language, kind, tables[i], service_name)

\* The call returned: every table was iterated and success() was called
Returned_ok == pc = "done" /\ language \in Generators

\* C11 as stated: every generator provides the four operations model, DAO contract,
\* store implementation and in-memory mock, and a call that returns has written all
\* four texts for every parsed table.
C11_Original_FourArtifactsEveryBackend ==
    Returned_ok =>
        \A i \in DOMAIN tables : \A kind \in ArtifactKinds : WroteKind(i, kind)

\* C11: every generator provides the model, DAO-contract and store-implementation
\* operations, and a call that returns has written these three texts for every parsed
\* table; the mock operation exists for rust only, the rust call writes the mock of
\* every table, and every write of the other languages is one of the three texts or
\* the table's module-wiring file.
C11_ThreeArtifactsMockOnlyRust ==
    Returned_ok =>
        /\ "mock" \in EmitterOperations(language) <=> language = "rust"
        /\ \A i \in DOMAIN tables :
              /\ \A kind \in ArtifactKinds \ {"mock"} : WroteKind(i, kind)
              /\ language = "rust" => WroteKind(i, "mock")
              /\ \A w \in WritesOf(i) :
                    \/ w.content \in Wiring(language, tables[i])
                    \/ \E kind \in EmitterOperations(language) :
                          w.content = Emit(language, kind, tables[i], service_name)

\* a python call that returned after writing for two tables, without any mock
C11_Witness ==
    /\ Returned_ok
    /\ language = "python"
    /\ Len(tables) = 2
    /\ Len(written) = 8
    /\ \A i \in DOMAIN tables : Cardinality(WritesOf(i)) = 4

\* The row of the output-layout table for a language and a table name T, relative to
\* output_dir
LayoutRow(lang, T) ==
    CASE lang = "rust" ->
           { "model/" \o T \o "/model.rs", "model/" \o T \o "/dao.rs",
             "model/" \o T \o "/pg_dao.rs", "model/" \o T \o "/mock_dao.rs",
             "model/" \o T \o "/mod.rs" }
      [] lang = "cpp" ->
           { "models/" \o T \o ".hpp", "dao/" \o T \o "_dao.hpp",
             "dao/pg_" \o T \o "_dao.hpp" }
      [] lang = "python" ->
           { T \o "/models.py", T \o "/dao.py", T \o "/sqlalchemy_dao.py",
             T \o "/__init__.py" }
      [] lang = "go" ->
           { T \o ".go", T \o "_dao.go", "pg_" \o T \o "_dao.go" }

\* The paths the current call wrote for the i-th table
WrittenPaths(i) == { w.path : w \in WritesOf(i) }

\* C12: when a call returns, the set of paths it wrote for each parsed table is exactly
\* the row of the output-layout table for the language and the table's source name, and
\* each of those paths is a file under output_dir.
C12_WrittenPathsAreLayoutRow ==
    Returned_ok =>
        \A i \in DOMAIN tables :
            /\ WrittenPaths(i) = LayoutRow(language, Str(tables[i].name))
            /\ WrittenPaths(i) \subseteq DOMAIN files

\* a go call that returned after writing the three files of user_profiles
C12_Witness ==
    /\ Returned_ok
    /\ language = "go"
    /\ schema_blocks = <<BlockUserProfiles>>
    /\ WrittenPaths(1) = {"user_profiles.go", "user_profiles_dao.go", "pg_user_profiles_dao.go"}
    /\ DOMAIN files = WrittenPaths(1)

\* The artifact the loop body is about to write
NextArtifact == Artifacts(language, tables[ti], service_name)[step]

\* The loop body is at a write
AtWrite == pc = "loop" /\ ti <= Len(tables) /\ step >= 1

\* C13 as stated: for every language, when the call is about to write an artifact the
\* parent directory of its path exists, output_dir included, whether the call had to
\* create it or it existed before; so no write fails for a missing directory.
C13_ParentDirectoryExistsAtWrite ==
    /\ AtWrite => NextArtifact.dir \in dirs
    /\ (language \in Generators /\ schema_exists) => raised # "FileNotFoundError"

\* The path of the write that failed
FailedPath == NextArtifact.path

\* C14 as stated: when a write fails, the call ends at once with the failure and
\* without a success report; every artifact written before the failing one is in place
\* with the text generated for it, and no file but those and the failing one differs
\* from what output_dir held when the call began.
C14_WriteFailureKeepsEarlierArtifacts ==
    (pc = "raised" /\ raised = "OSError") =>
        /\ \A k \in DOMAIN written :
              /\ written[k].path \in DOMAIN files
              /\ files[written[k].path] = written[k].content
        /\ \A p \in DOMAIN files \ ({ written[k].path : k \in DOMAIN written } \cup {FailedPath}) :
              p \in DOMAIN files_before /\ files[p] = files_before[p]
        /\ runs = 1 => reports = <<>>
        /\ ~ENABLED EnvNext

\* C15 as stated: a call that returns has passed exactly one message to success(), for
\* every language, and that message gives the number of tables parsed and the number
\* of files written.
C15_OneReportTablesAndFiles ==
    Returned_ok =>
        /\ Len(reports) = 1
        /\ reports[1].tables = Len(tables)
        /\ "files" \in DOMAIN reports[1]
        /\ reports[1].files = Len(written)

\* The columns of a table that are marked primary key
KeyColumns(table) == { j \in DOMAIN table.columns : table.columns[j].primary_key }

\* C16 as stated: every table parse_sql_schema returns has at most one column marked
\* primary key, whatever the schema text.
C16_AtMostOnePrimaryKeyColumn ==
    \A i \in DOMAIN tables : Cardinality(KeyColumns(tables[i])) <= 1

\* A fragment that forms no parsable block: parsed on its own it yields no table
Unparsable(fragment) == parse_sql_schema(fragment \o <<"\n">>) = <<>>

\* C17 as stated: parse_sql_schema raises for no text and returns a list of tables,
\* and a fragment that forms no parsable block contributes nothing to it: the list is
\* the one the text without those fragments yields.
C17_UnparsableFragmentContributesNothing ==
    /\ raised = "none"
    /\ pc = "dispatch" =>
          tables = parse_sql_schema(
                       SchemaText(SelectSeq(schema_blocks, LAMBDA b : ~Unparsable(b))))

\* The schema file yields no table
ZeroTables == parse_sql_schema(SchemaText(schema_blocks)) = <<>>

\* C18: a call with a registered language on a readable schema file that yields no
\* table does not fail: no exception leaves it, it can take its next step until it has
\* returned, it writes no file (output_dir holds what it held when the call began),
\* and every message it passes to success() reports 0 tables.
C18_ZeroTablesNoFilesZeroReport ==
    (language \in Generators /\ schema_exists /\ ZeroTables) =>
        /\ raised = "none" /\ pc # "raised"
        /\ pc \notin {"idle", "done"} => ENABLED EnvNext
        /\ pc # "idle" => written = <<>> /\ files = files_before
        /\ pc = "done" =>
              /\ reports # <<>>
              /\ \A k \in DOMAIN reports : reports[k].tables = 0

\* a go call on a schema file without CREATE TABLE block, output_dir missing: it
\* returned after one report of 0 tables, and output_dir holds nothing
C18_Witness ==
    /\ pc = "done"
    /\ language = "go"
    /\ schema_blocks = <<BlockNoise>>
    /\ schema_content # <<>>
    /\ tables = <<>>
    /\ dirs = {}
    /\ files = <<>>
    /\ reports = << Report("Generated GO DAO structure for", 0) >>

\* The paths the current call has written
AllWrittenPaths == { written[k].path : k \in DOMAIN written }

\* The text of the last write of the current call to a path
LastWritten(p) ==
    written[CHOOSE k \in DOMAIN written :
                /\ written[k].path = p
                /\ \A j \in DOMAIN written : written[j].path = p => j <= k].content

\* C19: when a call returns, every path it wrote holds exactly the text generated in
\* this call, whatever the path held before (nothing, a file of an earlier generation,
\* the text of the previous call), and the files it did not write are as they were; a
\* call repeated with the same schema file, language, output directory and service name
\* leaves output_dir as the call before it left it.
C19_OverwriteAndRerunIdempotent ==
    Returned_ok =>
        /\ DOMAIN files = DOMAIN files_before \cup AllWrittenPaths
        /\ \A p \in AllWrittenPaths : files[p] = LastWritten(p)
        /\ \A p \in DOMAIN files \ AllWrittenPaths : files[p] = files_before[p]
        /\ runs >= 2 => files = files_before

\* the second cpp call returned: it found the files of the first call, which had
\* replaced an older dao/pg_x_dao.hpp and left the other older files alone
C19_Witness ==
    /\ Returned_ok
    /\ runs = 2
    /\ language = "cpp"
    /\ schema_blocks = <<BlockX, BlockPgX>>
    /\ Len(written) = 6
    /\ files = files_before
    /\ DOMAIN StaleFiles \subseteq DOMAIN files
    /\ files["x.go"] = StaleText
    /\ files["dao/pg_x_dao.hpp"] = Cpp_generate_dao_interface(tables[2])

\* A name with its underscores dropped, the letter that begins the name or follows an
\* underscore in upper case, every other letter in lower case
CamelOf(name) ==
    LET kept == { i \in DOMAIN name : name[i] # "_" }
        cased == [i \in DOMAIN name |->
                     IF i = 1 \/ name[i - 1] = "_" THEN CharUpper(name[i])
                     ELSE CharLower(name[i])]
        nth(k) == CHOOSE i \in kept : Cardinality({ j \in kept : j <= i }) = k
    IN Str([k \in 1..Cardinality(kept) |-> cased[nth(k)]])

\* C20: the type name derived from a table is its source name split on underscores,
\* each word capitalized, the words concatenated (user_profiles gives UserProfiles,
\* orders gives Orders), and it is the name the model text written for the table holds.
C20_StructNameCapitalizedWords ==
    \A k \in DOMAIN written :
        LET table == tables[written[k].table]
        IN /\ struct_name(table) = CamelOf(table.name)
           /\ Str(table.name) = "user_profiles" => struct_name(table) = "UserProfiles"
           /\ Str(table.name) = "orders" => struct_name(table) = "Orders"
           /\ written[k].content = Emit(language, "model", table, service_name) =>
                 HasChunk(written[k].content, CamelOf(table.name))

\* a rust call that returned: the models written for user_profiles and orders declare
\* UserProfiles and Orders
C20_Witness ==
    /\ Returned_ok
    /\ language = "rust"
    /\ schema_blocks = <<BlockUserProfiles, BlockOrders>>
    /\ "model/user_profiles/model.rs" \in DOMAIN files
    /\ "model/orders/model.rs" \in DOMAIN files
    /\ HasChunk(files["model/user_profiles/model.rs"], "UserProfiles")
    /\ HasChunk(files["model/orders/model.rs"], "Orders")

-----------------------------------------------------------------------------
(* The parser on its own                                                   *)

\* The fragments that are blocks of the form CREATE TABLE <name> ( ... ) ;
FormBlocks == ParseBlocks \ {BlockTruncated, BlockNoise}

\* The name of such a block: the word after the keywords
BlockName(block) ==
    Slice(block, Len(CreateTableKw) + 2, SkipWord(block, Len(CreateTableKw) + 2))

\* The column section of such a block: what stands between its first opening and its
\* last closing parenthesis
ColumnSection(block) ==
    LET opens  == { i \in DOMAIN block : block[i] = "(" }
        closes == { i \in DOMAIN block : block[i] = ")" }
        first  == CHOOSE i \in opens : \A j \in opens : i <= j
        last   == CHOOSE i \in closes : \A j \in closes : j <= i
    IN Slice(block, first + 1, last)

\* The schema file is made of blocks of that form only
OnlyFormBlocks == \A k \in DOMAIN schema_blocks : schema_blocks[k] \in FormBlocks

\* C21 as stated: for a text made of k blocks CREATE TABLE <name> ( ... ) ; with the
\* keywords in any letter case and optional whitespace before the semicolon, the parse
\* returns k tables, named as the blocks in text order, the columns of each being those
\* of the lines between the block's outermost parentheses.
C21_OneTablePerBlockInOrder ==
    (pc = "dispatch" /\ OnlyFormBlocks) =>
        /\ Len(tables) = Len(schema_blocks)
        /\ \A k \in DOMAIN schema_blocks :
              /\ tables[k].name = BlockName(schema_blocks[k])
              /\ tables[k].columns = parse_columns(ColumnSection(schema_blocks[k]))

\* A line whose content is a table-level constraint, a PRIMARY KEY (...) clause or a
\* FOREIGN KEY (...) clause, its keywords in any letter case
IsClauseLine(line) ==
    \/ StartsWith(StrUpper(line), ConstraintKw)
    \/ StartsWith(StrUpper(line), PrimaryKeyKw)
    \/ StartsWith(StrUpper(line), ForeignKeyKw)

\* The lines of a block's column section that are no such clause and hold a name token
\* and a type token
ColumnLines(block) ==
    SelectSeq(column_lines(ColumnSection(block)),
              LAMBDA l : ~IsClauseLine(l) /\ Len(SplitWs(l, 1)) >= 2)

\* The schema file is made of blocks the pattern matches one by one
OnlyMatchedBlocks ==
    \A k \in DOMAIN schema_blocks : schema_blocks[k] \in FormBlocks \ {BlockTags}

\* C22 as stated: a line of the column section that is a table-level constraint, a
\* standalone PRIMARY KEY (...) or a standalone FOREIGN KEY (...) clause, in any letter
\* case, yields no column, and every other line with a name token and a type token
\* yields exactly one: the columns of a table are those lines, one each, in order.
C22_ClauseLinesYieldNoColumn ==
    (pc = "dispatch" /\ OnlyMatchedBlocks) =>
        \A k \in DOMAIN tables :
            LET lines == ColumnLines(schema_blocks[k])
            IN /\ Len(tables[k].columns) = Len(lines)
               /\ \A j \in DOMAIN lines :
                     tables[k].columns[j].name = SplitWs(lines[j], 1)[1]

\* A line without its trailing comma
StripTrailingComma(line) ==
    IF line # <<>> /\ line[Len(line)] = "," THEN SubSeq(line, 1, Len(line) - 1) ELSE line

\* The lines of a block's column section that yield a column
SurvivingLines(block) ==
    SelectSeq(column_lines(ColumnSection(block)), LAMBDA l : parse_line(l) # <<>>)

\* C23 as stated: for every line that yields a column, the column's name is the first
\* and its raw type the second whitespace-separated token of the line without its
\* trailing comma; nullable is false exactly when the line holds NOT NULL in any letter
\* case, primary_key is true exactly when it holds PRIMARY KEY in any letter case.
C23_ColumnFieldsFromLine ==
    (pc = "dispatch" /\ OnlyMatchedBlocks) =>
        \A k \in DOMAIN tables :
            LET lines == SurvivingLines(schema_blocks[k])
            IN /\ Len(tables[k].columns) = Len(lines)
               /\ \A j \in DOMAIN lines :
                     LET tokens == SplitWs(StripTrailingComma(lines[j]), 1)
                         col    == tables[k].columns[j]
                     IN /\ col.name = tokens[1]
                        /\ col.column_type = tokens[2]
                        /\ col.nullable = ~Contains(StrUpper(lines[j]), NotNullKw)
                        /\ col.primary_key = Contains(StrUpper(lines[j]), PrimaryKeyKw)

-----------------------------------------------------------------------------
(* The key of a table without primary-key column                           *)

\* A text holds a run of chunks
HasChunks(content, run) ==
    \E i \in 0..(Len(content) - Len(run)) : \A k \in DOMAIN run : content[i + k] = run[k]

\* The type a language resolves a UUID key column to
UuidType(lang) ==
    ResolveType(lang, DatabaseColumn(<<"i","d">>, <<"U","U","I","D">>, FALSE, TRUE))[1]

\* What the text of a kind must hold, for a language, when the key is named key_name
\* and has type U: the key parameters and return types of the contract and of the
\* implementations, the key column of the find and delete queries, the key of the
\* mock's map
KeyPhrases(lang, kind, table, key_name, U) ==
    CASE lang = "rust" /\ kind = "dao" ->
           { <<"    async fn find_by_id(&self, id: ", U, ") -> Result<Option<">>,
             <<") -> Result<", U, ", DatabaseError>;">>,
             <<"    async fn update(&self, id: ", U, ", entity: &">>,
             <<"    async fn delete(&self, id: ", U, ") -> Result<(), DatabaseError>;">> }
      [] lang = "rust" /\ kind = "store" ->
           { <<"    async fn find_by_id(&self, id: ", U, ") -> Result<Option<">>,
             <<"        let query = \"SELECT * FROM ", Str(table.name), " WHERE ", key_name,
               " = $1\";">>,
             <<") -> Result<", U, ", DatabaseError> {">>,
             <<"    async fn update(&self, id: ", U, ", entity: &">>,
             <<"    async fn delete(&self, id: ", U, ") -> Result<(), DatabaseError> {">>,
             <<"        let query = \"DELETE FROM ", Str(table.name), " WHERE ", key_name,
               " = $1\";">> }
      [] lang = "rust" /\ kind = "mock" ->
           { <<"    entities: Arc<Mutex<HashMap<", U, ", ">>,
             <<"            map.insert(entity.", key_name, ", entity);">>,
             <<"        let id = entity.", key_name, ";">>,
             <<"    async fn find_by_id(&self, id: ", U, ") -> Result<Option<">>,
             <<") -> Result<", U, ", DatabaseError> {">>,
             <<"    async fn update(&self, id: ", U, ", entity: &">>,
             <<"    async fn delete(&self, id: ", U, ") -> Result<(), DatabaseError> {">> }
      [] lang = "cpp" /\ kind = "dao" ->
           { <<">> find_by_id(const ", U, "& id) = 0;">>,
             <<"    virtual std::future<", U, "> create(const models::">>,
             <<"    virtual std::future<bool> update(const ", U, "& id, const models::">>,
             <<"    virtual std::future<bool> delete_entity(const ", U, "& id) = 0;">> }
      [] lang = "cpp" /\ kind = "store" ->
           { <<">> find_by_id(const ", U, "& id) override;">>,
             <<"    std::future<", U, "> create(const models::">>,
             <<"    std::future<bool> update(const ", U, "& id, const models::">>,
             <<"    std::future<bool> delete_entity(const ", U, "& id) override;">> }
      [] lang = "python" /\ kind = "dao" ->
           { <<"    async def find_by_id(self, entity_id: ", U, ") -> Optional[">>,
             <<"    async def update(self, entity_id: ", U, ", entity: ">>,
             <<"    async def delete(self, entity_id: ", U, ") -> bool:">> }
      [] lang = "python" /\ kind = "store" ->
           { <<"    async def find_by_id(self, entity_id: ", U, ") -> Optional[">>,
             <<"        stmt = select(", struct_name(table), "Model).where(",
               struct_name(table), "Model.", key_name, " == entity_id)">>,
             <<"    async def update(self, entity_id: ", U, ", entity: ">>,
             <<"            .where(", struct_name(table), "Model.", key_name,
               " == entity_id)">>,
             <<"    async def delete(self, entity_id: ", U, ") -> bool:">>,
             <<"        stmt = delete(", struct_name(table), "Model).where(",
               struct_name(table), "Model.", key_name, " == entity_id)">> }
      [] lang = "go" /\ kind = "dao" ->
           { <<"\tFindByID(ctx context.Context, id ", U, ") (*">>,
             <<"\tUpdate(ctx context.Context, id ", U, ", entity *">>,
             <<"\tDelete(ctx context.Context, id ", U, ") error">> }
      [] lang = "go" /\ kind = "store" ->
           { <<") FindByID(ctx context.Context, id ", U, ") (*">>,
             <<"\tquery := ", BackQuote, "SELECT * FROM ", Str(table.name), " WHERE ",
               key_name, " = $1", BackQuote>>,
             <<") Update(ctx context.Context, id ", U, ", entity *">>,
             <<") Delete(ctx context.Context, id ", U, ") error {">>,
             <<"\tquery := ", BackQuote, "DELETE FROM ", Str(table.name), " WHERE ",
               key_name, " = $1", BackQuote>> }

\* C24: for a table without a column marked primary key, the DAO contract, the store
\* implementation and (rust) the mock written for it use a key named id whose type is
\* the type the language resolves UUID to: in the key parameters and return types, in
\* the key column of the find and delete queries, and as the key of the mock's map.
C24_SyntheticUuidKeyNamedId ==
    \A k \in DOMAIN written :
        LET table == tables[written[k].table]
        IN ~HasPrimaryKey(table) =>
              \A kind \in EmitterOperations(language) \ {"model"} :
                  written[k].content = Emit(language, kind, table, service_name) =>
                      \A run \in KeyPhrases(language, kind, table, "id", UuidType(language)) :
                          HasChunks(written[k].content, run)

\* a go call that returned after writing the DAO of pg_x, which has no primary key:
\* its queries select and delete WHERE id = $1 with an id of type uuid.UUID
C24_Witness ==
    /\ Returned_ok
    /\ language = "go"
    /\ schema_blocks = <<BlockPgX>>
    /\ ~HasPrimaryKey(tables[1])
    /\ HasChunks(files["pg_pg_x_dao.go"],
                 <<"\tquery := ", BackQuote, "DELETE FROM ", "pg_x", " WHERE ", "id", " = $1",
                   BackQuote>>)
    /\ HasChunks(files["pg_x_dao.go"],
                 <<"\tFindByID(ctx context.Context, id ", "uuid.UUID", ") (*">>)

-----------------------------------------------------------------------------
(* One read and one parse per call                                          *)

\* C25: when a generate call has returned, the schema file was read exactly once in it,
\* whatever the language, and every artifact written is what the emitter gives for a
\* table of the parse of that text; every reported count is the number of those tables.
C25_SchemaReadAndParsedOnce ==
    Returned_ok =>
        /\ reads = 1
        /\ tables = parse_sql_schema(schema_content)
        /\ \A k \in DOMAIN written :
               /\ written[k].table \in DOMAIN tables
               /\ LET made == Artifacts(language, tables[written[k].table], service_name)
                  IN \E s \in DOMAIN made : /\ written[k].path = made[s].path
                                            /\ written[k].content = made[s].content
        /\ \A r \in DOMAIN reports : reports[r].tables = Len(tables)

-----------------------------------------------------------------------------
(* Foreign-key references                                                   *)

ReferencesKw == <<"R","E","F","E","R","E","N","C","E","S">>

\* The text of a line from its REFERENCES keyword on, without the trailing comma
ReferenceText(line) ==
    LET upper == StrUpper(line)
        at    == CHOOSE i \in 1..Len(line) :
                     /\ StartsWith(SubSeq(upper, i, Len(upper)), ReferencesKw)
                     /\ \A j \in 1..(i - 1) :
                            ~StartsWith(SubSeq(upper, j, Len(upper)), ReferencesKw)
    IN StripTrailingComma(SubSeq(line, at, Len(line)))

\* C26 as stated: the column of a line that carries a REFERENCES clause holds the text
\* of the reference in foreign_key, the column of any other line holds none.
C26_ForeignKeyReferenceStored ==
    (pc = "dispatch" /\ OnlyMatchedBlocks) =>
        \A k \in DOMAIN tables :
            LET lines == SurvivingLines(schema_blocks[k])
            IN \A j \in DOMAIN lines :
                  j \in DOMAIN tables[k].columns =>
                      LET col == tables[k].columns[j]
                      IN IF Contains(StrUpper(lines[j]), ReferencesKw)
                         THEN /\ col.foreign_key # None
                              /\ col.foreign_key = ReferenceText(lines[j])
                         ELSE col.foreign_key = None

-----------------------------------------------------------------------------
(* The mock's map and the keys of its entities                              *)

\* C27 as stated: whatever with_data, create, update and delete calls were made, every
\* entry of the mock's map is stored under the key of the entity it holds.
C27_EntriesKeyedByEntityKey ==
    \A k \in DOMAIN entities : KeyOf(entities[k]) = k

-----------------------------------------------------------------------------
(* Calls on clones of the mock are serialized by the mutex                  *)

\* C28: a holder between the first and the last step of an operation holds the mutex
\* of the one map all clones share, and what it read of the map is the map; so the map
\* is at every moment what the operations give when applied one after the other in the
\* order in which they took effect (no update is lost), and the result of every
\* operation is what it returns in that order.
C28_OperationsSerializedByMutex ==
    /\ \A h \in Holders :
          /\ holders[h].pc \in {"locked", "loaded", "applied"} => mutex = h
          /\ holders[h].pc = "loaded" => holders[h].seen = entities
          /\ holders[h].ok
    /\ entities = seq_entities

\* h2 has the guard and has overwritten key k1 by an update, which h1's create of
\* another entity under k1 waits behind; an earlier call of h1 had stored k1
C28_Witness ==
    /\ mutex = "h2"
    /\ holders["h2"].pc = "applied"
    /\ holders["h2"].call.op = "update"
    /\ holders["h2"].call.id = "k1"
    /\ holders["h1"].pc = "waiting"
    /\ holders["h1"].call.op = "create"
    /\ holders["h1"].call.id = "k1"
    /\ holders["h1"].call.entity # holders["h2"].call.entity
    /\ entities["k1"] = holders["h2"].call.entity
    /\ holders["h2"].seen # entities

-----------------------------------------------------------------------------
(* The modules of a Rust table directory                                    *)

\* The module names a wiring file can name
ModuleNames == {"dao", "model", "pg_dao", "mock_dao", "error", "response"}

\* The modules a wiring file declares, and those it re-exports
DeclaredModules(content) == { m \in ModuleNames : HasChunk(content, "pub mod " \o m \o ";") }
ReExportedModules(content) == { m \in ModuleNames : HasChunk(content, "pub use " \o m \o "::*;") }

\* C29 as stated: when a rust call returns, the mod.rs written for a table declares only
\* modules whose source file <module>.rs the call wrote in the same table directory, and
\* it re-exports exactly dao, model, pg_dao and mock_dao.
C29_ModRsDeclaresWrittenModules ==
    (Returned_ok /\ language = "rust") =>
        \A k \in DOMAIN written :
            LET table_dir == "model/" \o Str(tables[written[k].table].name)
            IN written[k].path = table_dir \o "/mod.rs" =>
                  /\ \A m \in DeclaredModules(written[k].content) :
                        table_dir \o "/" \o m \o ".rs" \in WrittenPaths(written[k].table)
                  /\ ReExportedModules(written[k].content)
                         = {"dao", "model", "pg_dao", "mock_dao"}

-----------------------------------------------------------------------------
(* The module path of the model in the Rust DAO files                       *)

\* The segments <segment> of the lines `use crate::model::<segment>::model::<T>;` of a text
ModelImportSegments(content) ==
    { content[i + 1] : i \in { i \in 1..(Len(content) - 2) :
                                  /\ content[i] = "use crate::model::"
                                  /\ content[i + 2] = "::model::" } }

\* C30 as stated: when a rust call returns, each of dao.rs, pg_dao.rs and mock_dao.rs
\* written for a table imports the model from crate::model::<segment>::model, and the
\* file model/<segment>/model.rs is the model the call wrote for that table.
C30_ModelImportNamesTableDirectory ==
    (Returned_ok /\ language = "rust") =>
        \A k \in DOMAIN written :
            LET table_dir == "model/" \o Str(tables[written[k].table].name)
            IN written[k].path \in { table_dir \o "/dao.rs", table_dir \o "/pg_dao.rs",
                                     table_dir \o "/mock_dao.rs" } =>
                  /\ ModelImportSegments(written[k].content) # {}
                  /\ \A segment \in ModelImportSegments(written[k].content) :
                        "model/" \o segment \o "/model.rs" \in WrittenPaths(written[k].table)

=============================================================================
